---- MODULE Spec2Model ----
(***************************************************************************)
(* Verification model of the stallion-analytics scraping pipeline          *)
(* (packages/ml-analysis/src/scraping).                                    *)
(*                                                                         *)
(* The module holds several state machines over disjoint groups of         *)
(* variables; each specification moves one group and leaves the others at  *)
(* their initial value:                                                    *)
(*   Spec      sequential HorseScraper.scrape over the horse_relations     *)
(*             table (pedigree_extractor.py, supabase_storage.py)          *)
(*   SpecConc  two HorseScraper.scrape runs interleaved at the granularity *)
(*             of single storage calls                                     *)
(*   SpecStore     the store calls of PostgreSQLStorage and                *)
(*                 SupabaseStorage.save_relations, one call per step       *)
(*   SpecComplete  insert_race and insert_complete_race_data               *)
(*                 (PostgreSQLStorage, RaceStorage)                        *)
(*   SpecBatch     RaceScraper.scrape_and_store_races and                  *)
(*                 HorseBatchScraper._process_horses_details               *)
(*   SpecRaceList  RaceScraper.scrape_race_list_by_conditions              *)
(*   SpecCollect   CompleteBatchProcessor._collect_horse_list              *)
(*   SpecPersonList   scrape_trainers, scrape_owners, scrape_breeders and   *)
(*                    scrape_jockeys                                       *)
(*   SpecFetch        the page fetches and sleeps of the scrapers          *)
(* and, each applying one function to arguments drawn from a bounded set:  *)
(*   SpecDetail       RaceScraper.scrape_race_detail                       *)
(*   SpecPayoutFormat RaceDataValidator.validate_race_payout               *)
(*   SpecConsistency  RaceDataValidator.validate_payout_consistency        *)
(*   SpecPrize        FieldParser.parse_prize                              *)
(*   SpecRates        update_stats and calculate_rates                     *)
(*   SpecResultRow    RaceDetailExtractor._extract_race_result_row         *)
(*   SpecPage         RaceDetailExtractor.extract_race_detail              *)
(*   SpecSkip         scrape_and_store_races and run_batch_collection with *)
(*                    the ids the store holds                              *)
(*   SpecTable        BasicInfoExtractor._find_profile_table and           *)
(*                    PedigreeExtractor._find_pedigree_table               *)
(*   SpecTally        RaceScraper.scrape_and_store_races, its counters     *)
(*   SpecStarters     RaceDetailExtractor._extract_race_results            *)
(*   SpecPayoutRow    RaceDetailExtractor._extract_payout_row              *)
(*   SpecResolve      HorseScraper.scrape with and without a Supabase      *)
(*                    client, with a horses upsert that may fail           *)
(*   SpecTimes        extract_race_detail over result tables with short    *)
(*                    rows and time cells                                  *)
(***************************************************************************)
EXTENDS Integers, Sequences, FiniteSets, TLC

(***************************************************************************)
(* Identifiers.  None stands for Python's None / a missing dict key.       *)
(***************************************************************************)
None == "none"
ParentIds == {"A", "B"}
KidIds == {"X", "Y"}
BmsIds == {"A"}

\* Number of HorseScraper.scrape calls explored by Spec.
MaxScrapes == 3

VARIABLES
    \* ---- group M: sequential HorseScraper.scrape -------------------------
    horse_relations,  \* the horse_relations table: rows in insertion order,
                      \* the row's id column is its index
    horses,           \* ids of the rows of the horses table
    scrapes,          \* number of scrape calls made so far
    last_scrape,      \* arguments and return value of the latest scrape call
    \* ---- group K: interleaved HorseScraper.scrape ------------------------
    c_relations,      \* the horse_relations table shared by the two runs
    c_proc,           \* per run: program counter and local variables
    c_overlap,        \* the two runs were inside scrape at the same time
    \* ---- group S: storage calls -----------------------------------------
    pg_db,            \* PostgreSQL: the committed tables
    pg_clock,         \* datetime.now() / NOW() of the next storage call
    pg_last,          \* the latest storage call: name, arguments, return value
    sb_db,            \* Supabase: races and race_results as RaceStorage sees them
    \* ---- group B: batch loops -------------------------------------------
    rb,               \* scrape_and_store_races: arguments, position, stats
    hb,               \* _process_horses_details: argument, position, self.results
    \* ---- group L: race list pages ---------------------------------------
    rl,               \* scrape_race_list_by_conditions: limit and locals
    \* ---- group H: horse list batches ------------------------------------
    ch,               \* _collect_horse_list: arguments and locals
    \* ---- group P: person list pages -------------------------------------
    pl,               \* scrape_trainers / owners / breeders / jockeys: locals
    \* ---- group F: fetches and sleeps ------------------------------------
    fx,               \* the running scrape: position, fetch in flight, last event
    \* ---- group U: functions applied to drawn inputs ---------------------
    u_call,           \* the function and its argument
    u_result          \* its return value, once it returned

varsM == <<horse_relations, horses, scrapes, last_scrape>>
varsK == <<c_relations, c_proc, c_overlap>>
varsS == <<pg_db, pg_clock, pg_last, sb_db>>
varsB == <<rb, hb>>
varsU == <<u_call, u_result>>
vars == <<varsM, varsK, varsS, varsB, rl, ch, pl, fx, varsU>>

\* what a step of one group leaves alone
restM == <<varsK, varsS, varsB, rl, ch, pl, fx, varsU>>
restK == <<varsM, varsS, varsB, rl, ch, pl, fx, varsU>>
restS == <<varsK, varsB, rl, ch, pl, fx, varsU>>
restB == <<varsM, varsK, varsS, rl, ch, pl, fx, varsU>>
restL == <<varsM, varsK, varsS, varsB, ch, pl, fx, varsU>>
restH == <<varsM, varsK, varsS, varsB, rl, pl, fx, varsU>>
restP == <<varsM, varsK, varsS, varsB, rl, ch, fx, varsU>>
restF == <<varsM, varsK, varsS, varsB, rl, ch, pl, varsU>>
restU == <<varsM, varsK, varsS, varsB, rl, ch, pl, fx>>

(***************************************************************************)
(* The horse_relations table (keyed-table abstraction of the store).       *)
(* children_ids None and [] are both modelled as <<>>: the only reader,    *)
(* add_child_to_mating, maps both to [] ("... or []").                     *)
(***************************************************************************)
Row(a, b, t, c) ==
    [horse_a_id |-> a, horse_b_id |-> b, relation_type |-> t, children_ids |-> c]

\* supabase.table('horse_relations').select(..).eq(a).eq(b).eq(type): row ids
SelectRelation(tbl, a, b, t) ==
    {i \in 1..Len(tbl) : /\ tbl[i].horse_a_id = a
                         /\ tbl[i].horse_b_id = b
                         /\ tbl[i].relation_type = t}

\* supabase.table('horse_relations').insert(row)
InsertRelation(tbl, row) == Append(tbl, row)

\* supabase.table('horse_relations').update({'children_ids': c}).eq('id', id)
UpdateChildren(tbl, id, c) == [tbl EXCEPT ![id].children_ids = c]

SeqToSet(s) == {s[i] : i \in 1..Len(s)}

(***************************************************************************)
(* PedigreeExtractor                                                       *)
(***************************************************************************)
\* extract_relations_from_url / extract_direct_relations: the edges read from
\* the pedigree page, in table order (sire at row 0; dam, then its sire, at
\* row 16).
DirectRelations(h, sire, dam, bms) ==
    (IF sire # None THEN <<Row(sire, h, "sire_of", <<>>)>> ELSE <<>>)
    \o (IF dam # None THEN <<Row(dam, h, "dam_of", <<>>)>> ELSE <<>>)
    \o (IF bms # None THEN <<Row(bms, h, "bms_of", <<>>)>> ELSE <<>>)

\* extract_pedigree_ids_from_relations: the last matching relation wins
RECURSIVE PedigreeId(_, _, _)
PedigreeId(rels, h, t) ==
    IF rels = <<>> THEN None
    ELSE LET r == rels[Len(rels)] IN
         IF r.horse_b_id = h /\ r.relation_type = t
         THEN r.horse_a_id
         ELSE PedigreeId(SubSeq(rels, 1, Len(rels) - 1), h, t)

\* find_existing_mating with the reverse lookup left out (mutant)
FindExistingMating_NoReverse(tbl, sire_id, dam_id) ==
    SelectRelation(tbl, sire_id, dam_id, "mating")

\* find_existing_mating: the rows result1.data[0] / result2.data[0] may be.
\* (sire,dam) is looked up first, (dam,sire) only when that finds nothing.
FindExistingMating(tbl, sire_id, dam_id) ==
    LET result1 == SelectRelation(tbl, sire_id, dam_id, "mating")
        result2 == SelectRelation(tbl, dam_id, sire_id, "mating")
    IN  IF result1 # {} THEN result1 ELSE result2

\* add_child_to_mating writing only the new child (mutant: overwrite, no merge)
UpdatedChildren_Overwrite(current_children, horse_id) == <<horse_id>>

\* add_child_to_mating, line 233: updated_children = current_children + [horse_id]
UpdatedChildren(current_children, horse_id) == Append(current_children, horse_id)

\* add_child_to_mating appending without the membership test (mutant)
AddChildToMating_NoCheck(tbl, id, horse_id) ==
    UpdateChildren(tbl, id, UpdatedChildren(tbl[id].children_ids, horse_id))

\* add_child_to_mating: the table after the call.  The child is appended
\* only when it is not in the list that was read.
AddChildToMating(tbl, id, horse_id) ==
    LET current_children == tbl[id].children_ids IN
    IF horse_id \notin SeqToSet(current_children)
    THEN UpdateChildren(tbl, id, UpdatedChildren(current_children, horse_id))
    ELSE tbl

(***************************************************************************)
(* SupabaseStorage.save_relations: per relation, a duplicate check on      *)
(* (horse_a_id, horse_b_id, relation_type), then an insert when absent.    *)
(***************************************************************************)
\* the duplicate check always answering "absent" (mutant)
RelationExists_Never(tbl, relation) == FALSE

\* save_relations, lines 78-84: existing.data is not empty
RelationExists(tbl, relation) ==
    SelectRelation(tbl, relation.horse_a_id, relation.horse_b_id,
                   relation.relation_type) # {}

\* save_relations, lines 85-92: clean_relation drops the id column
CleanRelation(relation) ==
    Row(relation.horse_a_id, relation.horse_b_id, relation.relation_type,
        relation.children_ids)

\* save_relations writing the incoming children_ids over a stored relation
\* (mutant: upsert)
RECURSIVE SaveRelations_Upsert(_, _)
SaveRelations_Upsert(tbl, rels) ==
    IF rels = <<>> THEN tbl
    ELSE LET relation == Head(rels)
             stored == SelectRelation(tbl, relation.horse_a_id, relation.horse_b_id,
                                      relation.relation_type)
         IN  SaveRelations_Upsert(
                 IF stored = {} THEN InsertRelation(tbl, CleanRelation(relation))
                 ELSE [i \in 1..Len(tbl) |->
                          IF i \in stored
                          THEN [tbl[i] EXCEPT !.children_ids = relation.children_ids]
                          ELSE tbl[i]],
                 Tail(rels))

RECURSIVE SaveRelations(_, _)
SaveRelations(tbl, rels) ==
    IF rels = <<>> THEN tbl
    ELSE LET relation == Head(rels) IN
         SaveRelations(IF ~RelationExists(tbl, relation)
                       THEN InsertRelation(tbl, CleanRelation(relation))
                       ELSE tbl,
                       Tail(rels))

(***************************************************************************)
(* Group M: HorseScraper.scrape, one call per step.                        *)
(***************************************************************************)
InitM ==
    /\ horse_relations = <<>>
    /\ horses = {}
    /\ scrapes = 0
    /\ last_scrape = [horse |-> None, sire |-> None, dam |-> None,
                      branch |-> "none", success |-> FALSE]

\* scrape_horse_detail returned None: scrape returns False before any store call
ScrapeDetailFails(h) ==
    /\ scrapes < MaxScrapes
    /\ scrapes' = scrapes + 1
    /\ last_scrape' = [horse |-> h, sire |-> None, dam |-> None,
                       branch |-> "none", success |-> FALSE]
    /\ UNCHANGED <<horse_relations, horses>>

\* create_mating_relations: which branch a call with these ids takes.
\*   "none"     sire or dam unknown, no mating relation
\*   "new"      no edge found, a new relation is handed to save_relations
\*   "added"    edge found, child appended (add_child_to_mating, line 232)
\*   "existing" edge found, child already listed (line 244)
MatingBranch(tbl, found, id, h, sire_id, dam_id) ==
    IF sire_id = None \/ dam_id = None THEN "none"
    ELSE IF found = {} THEN "new"
    ELSE IF h \notin SeqToSet(tbl[id].children_ids) THEN "added"
    ELSE "existing"

\* scrape with a detail page; the pedigree page names sire, dam, bms (or not)
Scrape(h, sire, dam, bms) ==
    /\ scrapes < MaxScrapes
    /\ LET relations == DirectRelations(h, sire, dam, bms)
           sire_id == PedigreeId(relations, h, "sire_of")
           dam_id == PedigreeId(relations, h, "dam_of")
           found == IF sire_id # None /\ dam_id # None
                    THEN FindExistingMating(horse_relations, sire_id, dam_id)
                    ELSE {}
       IN
       \E id \in (IF found = {} THEN {0} ELSE found) :
          /\ IF sire_id # None /\ dam_id # None
             THEN IF found # {}
                  THEN \* the updated (or unchanged) row returned by
                       \* add_child_to_mating goes through save_relations
                       \* after the direct relations
                       LET tbl == AddChildToMating(horse_relations, id, h) IN
                       horse_relations' =
                           SaveRelations(tbl, Append(relations, tbl[id]))
                  ELSE horse_relations' =
                         SaveRelations(horse_relations,
                                       Append(relations,
                                              Row(sire_id, dam_id, "mating", <<h>>)))
             ELSE horse_relations' = SaveRelations(horse_relations, relations)
          \* save_horse_data: upsert of the horses row (only its key is tracked)
          /\ horses' = horses \cup {h}
          /\ scrapes' = scrapes + 1
          \* save_all: horse_saved and (save_relations(relations) if relations else True)
          /\ last_scrape' = [horse |-> h, sire |-> sire_id, dam |-> dam_id,
                             branch |-> MatingBranch(horse_relations, found, id, h,
                                                     sire_id, dam_id),
                             success |-> TRUE]

\* the maternal-grandsire cell sits in the dam's half of the pedigree table
\* (row 16): the pages explored name a dam's sire whenever they name the dam
BmsOf(dam) == IF dam = None THEN {None} ELSE BmsIds

ScrapeFailsStep ==
    /\ \E h \in KidIds : ScrapeDetailFails(h)
    /\ UNCHANGED restM

ScrapeStep ==
    /\ \E h \in KidIds, sire \in ParentIds \cup {None}, dam \in ParentIds \cup {None} :
          \E bms \in BmsOf(dam) : Scrape(h, sire, dam, bms)
    /\ UNCHANGED restM

(***************************************************************************)
(* Group K: two HorseScraper.scrape runs on one table, one storage call    *)
(* per step.  Run 1 scrapes X, run 2 scrapes Y; both pedigree pages name   *)
(* sire A and dam B.  The table is empty or holds what an earlier scrape   *)
(* of a third child W of the same pair left.                               *)
(*   find1   find_existing_mating, lookup (sire, dam)                      *)
(*   find2   find_existing_mating, lookup (dam, sire)                      *)
(*   add     add_child_to_mating on the row that was read                  *)
(*   check   save_relations, duplicate check of relations[k]               *)
(*   insert  save_relations, insert of relations[k]                        *)
(* save_horse_data touches only the horses table and is not a step.        *)
(***************************************************************************)
Runs == {1, 2}
RunHorse(p) == IF p = 1 THEN "X" ELSE "Y"
RunSire == "A"
RunDam == "B"
EarlierChild == "W"

\* the tables the runs may start on
StartTables ==
    { <<>>,
      SaveRelations(<<>>, Append(DirectRelations(EarlierChild, RunSire, RunDam, None),
                                 Row(RunSire, RunDam, "mating", <<EarlierChild>>))) }

IdleK ==
    /\ c_relations = <<>>
    /\ c_proc = <<>>
    /\ c_overlap = FALSE

InitK ==
    /\ c_relations \in StartTables
    /\ c_proc = [p \in Runs |->
                   [pc |-> "find1",
                    relations |-> DirectRelations(RunHorse(p), RunSire, RunDam, None),
                    k |-> 1,
                    id |-> 0,
                    read |-> <<>>]]
    /\ c_overlap = FALSE

InScrape(proc, p) == proc[p].pc \notin {"find1", "done"}

\* bookkeeping shared by every step of run p
StepK(p, newp) ==
    /\ c_proc' = [c_proc EXCEPT ![p] = newp]
    /\ c_overlap' = (c_overlap \/ \A q \in Runs : InScrape(c_proc', q))

\* position after relations[k] has been handled
AfterRelation(r) ==
    IF r.k >= Len(r.relations)
    THEN [r EXCEPT !.pc = "done", !.k = r.k + 1]
    ELSE [r EXCEPT !.pc = "check", !.k = r.k + 1]

\* create_mating_relations, lines 181-187: no edge found, new relation
WithNewRelation(r, p) ==
    [r EXCEPT !.pc = "check",
              !.relations = Append(r.relations,
                                   Row(RunSire, RunDam, "mating", <<RunHorse(p)>>))]

Find1(p) ==
    /\ c_proc[p].pc = "find1"
    /\ LET result1 == SelectRelation(c_relations, RunSire, RunDam, "mating") IN
       IF result1 # {}
       THEN \E id \in result1 :
              StepK(p, [c_proc[p] EXCEPT !.pc = "add", !.id = id,
                                         !.read = c_relations[id].children_ids])
       ELSE StepK(p, [c_proc[p] EXCEPT !.pc = "find2"])
    /\ UNCHANGED c_relations

Find2(p) ==
    /\ c_proc[p].pc = "find2"
    /\ LET result2 == SelectRelation(c_relations, RunDam, RunSire, "mating") IN
       IF result2 # {}
       THEN \E id \in result2 :
              StepK(p, [c_proc[p] EXCEPT !.pc = "add", !.id = id,
                                         !.read = c_relations[id].children_ids])
       ELSE StepK(p, WithNewRelation(c_proc[p], p))
    /\ UNCHANGED c_relations

\* add_child_to_mating: the membership test and the list written are those of
\* the row as it was read by find_existing_mating
Add(p) ==
    /\ c_proc[p].pc = "add"
    /\ LET r == c_proc[p]
           h == RunHorse(p)
       IN IF h \notin SeqToSet(r.read)
          THEN /\ c_relations' = UpdateChildren(c_relations, r.id,
                                                UpdatedChildren(r.read, h))
               \* update_result.data[0]: the row as updated
               /\ StepK(p, [r EXCEPT !.pc = "check",
                                     !.relations = Append(r.relations, c_relations'[r.id])])
          ELSE /\ UNCHANGED c_relations
               \* existing_mating is returned as read
               /\ StepK(p, [r EXCEPT !.pc = "check",
                                     !.relations =
                                        Append(r.relations,
                                               [c_relations[r.id] EXCEPT
                                                   !.children_ids = r.read])])

Check(p) ==
    /\ c_proc[p].pc = "check"
    /\ LET r == c_proc[p] IN
       IF RelationExists(c_relations, r.relations[r.k])
       THEN StepK(p, AfterRelation(r))
       ELSE StepK(p, [r EXCEPT !.pc = "insert"])
    /\ UNCHANGED c_relations

Insert(p) ==
    /\ c_proc[p].pc = "insert"
    /\ LET r == c_proc[p] IN
       /\ c_relations' = InsertRelation(c_relations, CleanRelation(r.relations[r.k]))
       /\ StepK(p, AfterRelation(r))

Find1Step == (\E p \in Runs : Find1(p)) /\ UNCHANGED restK
Find2Step == (\E p \in Runs : Find2(p)) /\ UNCHANGED restK
AddStep == (\E p \in Runs : Add(p)) /\ UNCHANGED restK
CheckStep == (\E p \in Runs : Check(p)) /\ UNCHANGED restK
InsertStep == (\E p \in Runs : Insert(p)) /\ UNCHANGED restK

(***************************************************************************)
(* Group S: the storage classes, one call per step.                        *)
(*                                                                         *)
(* A races row keeps race_id, created_at, updated_at and three data        *)
(* columns: race_name stands for the text and number columns that every    *)
(* statement lists side by side (race_date, track_name, race_number,       *)
(* race_name, track_type, total_horses, grade, track_direction, weather,   *)
(* track_condition, start_time, winning_time, pace, prize_1st, race_class, *)
(* race_conditions); distance and corner_positions are kept apart because  *)
(* _insert_race_with_cursor treats them differently.  In the same way a    *)
(* race_results row keeps horse_name (a column left alone on conflict) and *)
(* finish_position (a column rewritten on conflict), a race_payouts row    *)
(* keeps payout_amount.                                                    *)
(***************************************************************************)
\* created_at / updated_at of a freshly extracted record (None)
NoTime == 0

\* Number of storage calls explored by SpecStore.
MaxCalls == 3

\* "x.created_at or datetime.now()"
OrNow(t, now) == IF t = NoTime THEN now ELSE t

\* Race.distance: the extractor yields an int; a caller may pass a digit string
IntDistance(n) == [type |-> "int", value |-> n]
StrDistance(n) == [type |-> "str", value |-> n]

\* a jsonb cell: SQL NULL, or the text json.dumps made of a dict
SqlNull == [json |-> "NULL"]
JsonDumps(c) == [json |-> c]

\* "if race.corner_positions: corner_positions_json = json.dumps(...)"
CornerPositionsJson(c) == IF c = None THEN SqlNull ELSE JsonDumps(c)

RaceInput(name, dist, corner) ==
    [race_id |-> "R1", race_name |-> name, distance |-> dist,
     corner_positions |-> corner, created_at |-> NoTime, updated_at |-> NoTime]

NoRace ==
    [race_id |-> None, race_name |-> None, distance |-> IntDistance(0),
     corner_positions |-> None, created_at |-> NoTime, updated_at |-> NoTime]

Races ==
    {RaceInput("Derby", IntDistance(2400), None),
     RaceInput("Tokyo Yushun", IntDistance(2400), "c1"),
     RaceInput("Derby", StrDistance(2000), "c1")}

HorseName(h) == IF h = "H1" THEN "name1" ELSE "name2"

Res(h, pos) ==
    [race_id |-> "R1", horse_id |-> h, horse_name |-> HorseName(h),
     finish_position |-> pos, created_at |-> NoTime, updated_at |-> NoTime]

ResultLists ==
    {<<>>, <<Res("H1", 1)>>, <<Res("H1", 1), Res("H2", 2)>>,
     <<Res("H1", 2), Res("H2", 1)>>}

Pay(bet, comb, amount) ==
    [race_id |-> "R1", bet_type |-> bet, combination |-> comb,
     payout_amount |-> amount, created_at |-> NoTime, updated_at |-> NoTime]

PayoutLists ==
    {<<>>, <<Pay("win", "1", 100)>>,
     <<Pay("win", "1", 250), Pay("place", "1", 110)>>}

RelationLists ==
    {<<>>, DirectRelations("X", "A", "B", None),
     DirectRelations("X", "A", "B", None) \o <<Row("A", "B", "mating", <<"X">>)>>,
     <<Row("A", "B", "mating", <<"Y">>)>>}

\* ---- PostgreSQL statements ----------------------------------------------
\* INSERT INTO races ... ON CONFLICT (race_id) DO UPDATE SET <every column
\* but race_id and created_at>   (insert_race)
UpsertRace(races, race, now) ==
    LET data == [race_id |-> race.race_id,
                 race_name |-> race.race_name,
                 distance |-> race.distance.value,
                 corner_positions |-> CornerPositionsJson(race.corner_positions),
                 created_at |-> OrNow(race.created_at, now),
                 updated_at |-> OrNow(race.updated_at, now)]
        old == {r \in races : r.race_id = data.race_id}
    IN IF old = {} THEN races \cup {data}
       ELSE (races \ old) \cup
            {[r EXCEPT !.race_name = data.race_name,
                       !.distance = data.distance,
                       !.corner_positions = data.corner_positions,
                       !.updated_at = data.updated_at] : r \in old}

\* int(race.distance) if isinstance(race.distance, str) and
\* race.distance.isdigit() else 0
DistanceInt(distance) == IF distance.type = "str" THEN distance.value ELSE 0

\* INSERT INTO races (no corner_positions, no lap_data) ... ON CONFLICT
\* (race_id) DO UPDATE SET updated_at   (_insert_race_with_cursor)
UpsertRaceWithCursor(races, race, now) ==
    LET data == [race_id |-> race.race_id,
                 race_name |-> race.race_name,
                 distance |-> DistanceInt(race.distance),
                 corner_positions |-> SqlNull,
                 created_at |-> OrNow(race.created_at, now),
                 updated_at |-> OrNow(race.updated_at, now)]
        old == {r \in races : r.race_id = data.race_id}
    IN IF old = {} THEN races \cup {data}
       ELSE (races \ old) \cup {[r EXCEPT !.updated_at = data.updated_at] : r \in old}

\* INSERT INTO race_results ... ON CONFLICT (race_id, horse_id) DO UPDATE SET
\* updated_at, finish_position, race_time, odds, popularity, horse_weight,
\* weight_change: one statement per element (executemany)
UpsertResult(tbl, result, now) ==
    LET data == [race_id |-> result.race_id,
                 horse_id |-> result.horse_id,
                 horse_name |-> result.horse_name,
                 finish_position |-> result.finish_position,
                 created_at |-> OrNow(result.created_at, now),
                 updated_at |-> OrNow(result.updated_at, now)]
        old == {r \in tbl : r.race_id = data.race_id /\ r.horse_id = data.horse_id}
    IN IF old = {} THEN tbl \cup {data}
       ELSE (tbl \ old) \cup
            {[r EXCEPT !.finish_position = data.finish_position,
                       !.updated_at = data.updated_at] : r \in old}

RECURSIVE UpsertResults(_, _, _)
UpsertResults(tbl, results, now) ==
    IF results = <<>> THEN tbl
    ELSE UpsertResults(UpsertResult(tbl, Head(results), now), Tail(results), now)

\* INSERT INTO race_payouts ... ON CONFLICT (race_id, bet_type, combination)
\* DO UPDATE SET payout_amount, popularity, updated_at
UpsertPayout(tbl, payout, now) ==
    LET data == [race_id |-> payout.race_id,
                 bet_type |-> payout.bet_type,
                 combination |-> payout.combination,
                 payout_amount |-> payout.payout_amount,
                 created_at |-> OrNow(payout.created_at, now),
                 updated_at |-> OrNow(payout.updated_at, now)]
        old == {r \in tbl : /\ r.race_id = data.race_id
                            /\ r.bet_type = data.bet_type
                            /\ r.combination = data.combination}
    IN IF old = {} THEN tbl \cup {data}
       ELSE (tbl \ old) \cup
            {[r EXCEPT !.payout_amount = data.payout_amount,
                       !.updated_at = data.updated_at] : r \in old}

RECURSIVE UpsertPayouts(_, _, _)
UpsertPayouts(tbl, payouts, now) ==
    IF payouts = <<>> THEN tbl
    ELSE UpsertPayouts(UpsertPayout(tbl, Head(payouts), now), Tail(payouts), now)

\* check_horse_exists always answering "absent" (mutant)
HorseExists_Never(tbl, horse_id) == FALSE

\* SELECT 1 FROM horses WHERE id = %s LIMIT 1   (check_horse_exists)
HorseExists(tbl, horse_id) == \E r \in tbl : r.id = horse_id

\* INSERT INTO horses (id, name_ja, created_at, updated_at) ... ON CONFLICT
\* (id) DO UPDATE SET updated_at   (insert_horse_basic, _insert_horse_with_cursor)
UpsertHorse(tbl, horse_data) ==
    LET old == {r \in tbl : r.id = horse_data.id}
    IN IF old = {} THEN tbl \cup {horse_data}
       ELSE (tbl \ old) \cup {[r EXCEPT !.updated_at = horse_data.updated_at] : r \in old}

\* the loop over results: a horses row for every horse_id not yet stored
RECURSIVE EnsureHorses(_, _, _)
EnsureHorses(tbl, results, now) ==
    IF results = <<>> THEN tbl
    ELSE LET result == Head(results)
             horse_data == [id |-> result.horse_id, name_ja |-> result.horse_name,
                            created_at |-> now, updated_at |-> now]
         IN EnsureHorses(IF ~HorseExists(tbl, result.horse_id)
                         THEN UpsertHorse(tbl, horse_data) ELSE tbl,
                         Tail(results), now)

\* insert_horse_relations, lines 176-204: SELECT id ... WHERE (a, b, type);
\* INSERT ... VALUES (a, b, type, children_ids, NOW()) when no row came back
PgRelationRow(relation, now) ==
    [horse_a_id |-> relation.horse_a_id, horse_b_id |-> relation.horse_b_id,
     relation_type |-> relation.relation_type,
     children_ids |-> relation.children_ids, created_at |-> now]

RECURSIVE InsertHorseRelations(_, _, _)
InsertHorseRelations(tbl, relations, now) ==
    IF relations = <<>> THEN tbl
    ELSE LET relation == Head(relations) IN
         InsertHorseRelations(IF ~RelationExists(tbl, relation)
                              THEN Append(tbl, PgRelationRow(relation, now))
                              ELSE tbl,
                              Tail(relations), now)

\* ---- connections and transactions ---------------------------------------
EmptyDb ==
    [races |-> {}, race_results |-> {}, race_payouts |-> {}, horses |-> {},
     horse_relations |-> <<>>]

\* conn.rollback() keeping what the connection wrote (mutant)
Rollback_Keep(db, tx) == tx

\* conn.commit(): what the connection wrote becomes the stored state
Commit(db, tx) == tx

\* conn.rollback(), or conn.close() without commit: the stored state stays
Rollback(db, tx) == db

Call(op, race, results, payouts, relations, ok) ==
    [op |-> op, race |-> race, results |-> results, payouts |-> payouts,
     relations |-> relations, ok |-> ok, again |-> FALSE]

\* the call is made at time pg_clock and returns call.ok with the tables db;
\* again: the call before it was the same call with the same arguments
Returns(call, db) ==
    /\ pg_clock <= MaxCalls
    /\ pg_db' = db
    /\ pg_clock' = pg_clock + 1
    /\ pg_last' = [call EXCEPT !.again = (call = [pg_last EXCEPT !.again = FALSE])]

\* ---- PostgreSQLStorage --------------------------------------------------
\* insert_race(race)
InsertRace(race, fails) ==
    LET tx == [pg_db EXCEPT !.races = UpsertRace(@, race, pg_clock)]
    IN Returns(Call("insert_race", race, <<>>, <<>>, <<>>, ~fails),
               IF fails THEN Rollback(pg_db, tx) ELSE Commit(pg_db, tx))

\* insert_race_results(results): the horses rows are written on connections
\* of their own (insert_horse_basic) and stay when the batch insert fails
InsertRaceResults(results, fail) ==
    LET call(ok) == Call("insert_race_results", NoRace, results, <<>>, <<>>, ok)
        now == pg_clock
        with_horses == [pg_db EXCEPT !.horses = EnsureHorses(@, results, now)]
        tx == [with_horses EXCEPT !.race_results = UpsertResults(@, results, now)]
    IN IF results = <<>> THEN fail = "none" /\ Returns(call(TRUE), pg_db)
       ELSE CASE fail = "none" -> Returns(call(TRUE), Commit(with_horses, tx))
              [] fail = "connect" -> Returns(call(FALSE), pg_db)
              [] fail = "execute" -> Returns(call(FALSE), Rollback(with_horses, tx))

\* insert_race_payouts(payouts)
InsertRacePayouts(payouts, fails) ==
    LET call(ok) == Call("insert_race_payouts", NoRace, <<>>, payouts, <<>>, ok)
        tx == [pg_db EXCEPT !.race_payouts = UpsertPayouts(@, payouts, pg_clock)]
    IN IF payouts = <<>> THEN ~fails /\ Returns(call(TRUE), pg_db)
       ELSE Returns(call(~fails), IF fails THEN Rollback(pg_db, tx) ELSE Commit(pg_db, tx))

\* insert_horse_relations(relations)
InsertHorseRelationsCall(relations, fails) ==
    LET call(ok) == Call("insert_horse_relations", NoRace, <<>>, <<>>, relations, ok)
        tx == [pg_db EXCEPT
                 !.horse_relations = InsertHorseRelations(@, relations, pg_clock)]
    IN IF relations = <<>> THEN ~fails /\ Returns(call(FALSE), pg_db)
       ELSE Returns(call(~fails), IF fails THEN Rollback(pg_db, tx) ELSE Commit(pg_db, tx))

\* insert_complete_race_data, lines 850-861: check_horse_exists reads the
\* committed table on a connection of its own, _insert_horse_with_cursor
\* writes inside the transaction
RECURSIVE EnsureHorsesWithCursor(_, _, _, _, _)
EnsureHorsesWithCursor(committed, tbl, results, horses_processed, now) ==
    IF results = <<>> THEN tbl
    ELSE LET result == Head(results)
             horse_data == [id |-> result.horse_id, name_ja |-> result.horse_name,
                            created_at |-> now, updated_at |-> now]
         IN EnsureHorsesWithCursor(
                committed,
                IF /\ result.horse_id \notin horses_processed
                   /\ ~HorseExists(committed, result.horse_id)
                THEN UpsertHorse(tbl, horse_data) ELSE tbl,
                Tail(results), horses_processed \cup {result.horse_id}, now)

CompleteFailures == {"none", "connect", "race", "horse", "results", "commit"}

\* insert_complete_race_data(race, results).  fail names the statement that
\* raises: a failed horse insert is only logged, but it aborts the
\* transaction, so the results statement fails after it.
InsertCompleteRaceData(race, results, fail) ==
    LET call(ok) == Call("insert_complete_race_data", race, results, <<>>, <<>>, ok)
        now == pg_clock
        tx1 == [pg_db EXCEPT !.races = UpsertRaceWithCursor(@, race, now)]
        tx2 == [tx1 EXCEPT !.horses =
                    EnsureHorsesWithCursor(pg_db.horses, @, results, {}, now)]
        tx3 == [tx2 EXCEPT !.race_results = UpsertResults(@, results, now)]
    IN CASE fail = "none" -> Returns(call(TRUE), Commit(pg_db, tx3))
         [] fail = "connect" -> Returns(call(FALSE), pg_db)
         [] fail = "race" -> Returns(call(FALSE), Rollback(pg_db, pg_db))
         [] fail = "horse" -> /\ tx2 # tx1
                              /\ Returns(call(FALSE), Rollback(pg_db, tx1))
         [] fail = "results" -> Returns(call(FALSE), Rollback(pg_db, tx2))
         [] fail = "commit" -> Returns(call(FALSE), Rollback(pg_db, tx3))

\* ---- SupabaseStorage / RaceStorage --------------------------------------
\* save_relations(relations): no transaction, an exception at relation
\* number fail_at leaves the earlier inserts in place (fail_at = 0: none)
SaveRelationsCall(relations, fail_at) ==
    LET call(ok) == Call("save_relations", NoRace, <<>>, <<>>, relations, ok)
    IN /\ fail_at <= Len(relations)
       /\ horse_relations' =
              IF fail_at = 0 THEN SaveRelations(horse_relations, relations)
              ELSE SaveRelations(horse_relations, SubSeq(relations, 1, fail_at - 1))
       /\ Returns(call(relations # <<>> /\ fail_at = 0), pg_db)

\* SupabaseStorage.__init__ assigns self.supabase and nothing else, and
\* RaceStorage.__init__ only calls it: self.client raises AttributeError,
\* which every RaceStorage method catches
StorageHasClient == FALSE

\* results[i:i + batch_size]
batch_size == 50

Min(a, b) == IF a < b THEN a ELSE b

\* Race.to_dict() / RaceResult.to_dict()
RaceToDict(race) ==
    [race_id |-> race.race_id, race_name |-> race.race_name,
     distance |-> race.distance.value, corner_positions |-> race.corner_positions]
ResultToDict(result) ==
    [race_id |-> result.race_id, horse_id |-> result.horse_id,
     horse_name |-> result.horse_name, finish_position |-> result.finish_position]

\* RaceStorage.insert_race: a plain insert, refused on a stored race_id
RsInsertRace(db, race, fails) ==
    IF \/ ~StorageHasClient
       \/ fails
       \/ \E r \in db.races : r.race_id = race.race_id
    THEN [db |-> db, ok |-> FALSE]
    ELSE [db |-> [db EXCEPT !.races = @ \cup {RaceToDict(race)}], ok |-> TRUE]

\* RaceStorage.insert_race_results: one insert per batch; failing holds the
\* offsets of the batches whose insert raises
RECURSIVE RsInsertRaceResults(_, _, _, _)
RsInsertRaceResults(db, results, i, failing) ==
    IF i >= Len(results)
    THEN [db |-> db, success_count |-> 0, error_count |-> 0]
    ELSE LET batch == SubSeq(results, i + 1, Min(i + batch_size, Len(results)))
             data_batch == {ResultToDict(batch[k]) : k \in 1..Len(batch)}
             refused == \/ ~StorageHasClient
                        \/ i \in failing
                        \/ \E d \in data_batch, r \in db.race_results :
                              d.race_id = r.race_id /\ d.horse_id = r.horse_id
             rest == RsInsertRaceResults(
                         IF refused THEN db
                         ELSE [db EXCEPT !.race_results = @ \cup data_batch],
                         results, i + batch_size, failing)
         IN [db |-> rest.db,
             success_count |-> rest.success_count + (IF refused THEN 0 ELSE Len(batch)),
             error_count |-> rest.error_count + (IF refused THEN Len(batch) ELSE 0)]

\* success_rate = success_count / total_results if total_results > 0 else 1.0;
\* success_rate >= 0.8
SuccessRateOk(success_count, total_results) ==
    IF total_results > 0 THEN 10 * success_count >= 8 * total_results ELSE TRUE

\* RaceStorage.insert_complete_race_data(race, results)
RsInsertCompleteRaceData(race, results, race_fails, failing) ==
    LET call(ok) == Call("rs_insert_complete_race_data", race, results, <<>>, <<>>, ok)
        r1 == RsInsertRace(sb_db, race, race_fails)
        r2 == RsInsertRaceResults(r1.db, results, 0, failing)
    IN IF ~r1.ok
       THEN sb_db' = r1.db /\ Returns(call(FALSE), pg_db)
       ELSE /\ sb_db' = r2.db
            /\ Returns(call(SuccessRateOk(r2.success_count, Len(results))), pg_db)

\* ---- one storage call per step ------------------------------------------
\* group M variables other than the Supabase horse_relations table
restM_of_S == <<horses, scrapes, last_scrape>>

IdleS ==
    /\ pg_db = EmptyDb
    /\ pg_clock = 1
    /\ pg_last = Call("none", NoRace, <<>>, <<>>, <<>>, FALSE)
    /\ sb_db = [races |-> {}, race_results |-> {}]

InsertRaceStep ==
    /\ \E race \in Races, fails \in BOOLEAN : InsertRace(race, fails)
    /\ UNCHANGED <<sb_db, varsM, restS>>

InsertRaceResultsStep ==
    /\ \E results \in ResultLists, fail \in {"none", "connect", "execute"} :
          InsertRaceResults(results, fail)
    /\ UNCHANGED <<sb_db, varsM, restS>>

InsertRacePayoutsStep ==
    /\ \E payouts \in PayoutLists, fails \in BOOLEAN : InsertRacePayouts(payouts, fails)
    /\ UNCHANGED <<sb_db, varsM, restS>>

InsertHorseRelationsStep ==
    /\ \E relations \in RelationLists, fails \in BOOLEAN :
          InsertHorseRelationsCall(relations, fails)
    /\ UNCHANGED <<sb_db, varsM, restS>>

InsertCompleteRaceDataStep ==
    /\ \E race \in Races, results \in ResultLists, fail \in CompleteFailures :
          InsertCompleteRaceData(race, results, fail)
    /\ UNCHANGED <<sb_db, varsM, restS>>

SaveRelationsStep ==
    /\ \E relations \in RelationLists, fail_at \in 0..3 :
          SaveRelationsCall(relations, fail_at)
    /\ UNCHANGED <<sb_db, restM_of_S, restS>>

RsInsertCompleteRaceDataStep ==
    /\ \E race \in Races, results \in ResultLists, race_fails \in BOOLEAN :
          \E failing \in (IF race_fails THEN {{}} ELSE SUBSET {0}) :
             RsInsertCompleteRaceData(race, results, race_fails, failing)
    /\ UNCHANGED <<varsM, restS>>

(***************************************************************************)
(* Group B: the two batch loops, one list entry per step.                  *)
(*   RaceScraper.scrape_and_store_races(race_list, skip_existing)          *)
(*   HorseBatchScraper._process_horses_details(horse_list, delay)          *)
(* A behaviour runs one of the two; the other is given the empty list.     *)
(***************************************************************************)
\* Longest race_list / horse_list explored by SpecBatch.
MaxItems == 3

\* race_info.get('race_id') of a list entry: an id, or None when missing
RaceInfoIds == {None, "R1", "R2"}
BatchHorseIds == <<"H1", "H2", "H3", "H4">>

SeqsUpTo(S, n) == UNION {[1..k -> S] : k \in 0..n}
RaceLists == SeqsUpTo(RaceInfoIds, MaxItems)
HorseLists == {SubSeq(BatchHorseIds, 1, k) : k \in 0..Min(MaxItems, Len(BatchHorseIds))}

\* stats = {'total': len(race_list), 'success': 0, 'skipped': 0, 'failed': 0,
\*          'errors': []}
NewStats(race_list) ==
    [total |-> Len(race_list), success |-> 0, skipped |-> 0, failed |-> 0,
     errors |-> 0]

\* scrape_race_detail returns "race, results, payouts";
\* scrape_and_store_races unpacks "race, results = race_data"
DetailTupleLen == 3
UnpackTargets == 2

\* RaceStorage.check_race_exists: the answer of the store, False when the
\* lookup raises
CheckRaceExists(stored) == IF StorageHasClient THEN stored ELSE FALSE

\* RaceStorage.insert_complete_race_data as seen by the caller
InsertCompleteReturns(accepted) == IF StorageHasClient THEN accepted ELSE FALSE

\* What one pass of the loop body does with an entry.  stored, detail_ok and
\* accepted are the answers of the store and of the site for this entry.
RaceOutcome(race_id, skip_existing, stored, detail_ok, accepted) ==
    IF race_id = None THEN "missing_race_id"
    ELSE IF skip_existing /\ CheckRaceExists(stored) THEN "skipped"
    ELSE IF ~detail_ok THEN "detail_failed"
    ELSE IF DetailTupleLen # UnpackTargets THEN "exception"
    ELSE IF InsertCompleteReturns(accepted) THEN "success"
    ELSE "insert_failed"

\* a loop body that forgets to count an entry without race_id (mutant)
Tally_SkipMissing(stats, outcome) ==
    CASE outcome = "missing_race_id" -> stats
      [] outcome = "skipped" -> [stats EXCEPT !.skipped = @ + 1]
      [] outcome = "success" -> [stats EXCEPT !.success = @ + 1]
      [] OTHER -> [stats EXCEPT !.failed = @ + 1, !.errors = @ + 1]

\* the counters after the entry
Tally(stats, outcome) ==
    CASE outcome = "missing_race_id" -> [stats EXCEPT !.failed = @ + 1]
      [] outcome = "skipped" -> [stats EXCEPT !.skipped = @ + 1]
      [] outcome = "success" -> [stats EXCEPT !.success = @ + 1]
      [] outcome \in {"detail_failed", "insert_failed", "exception"} ->
             [stats EXCEPT !.failed = @ + 1, !.errors = @ + 1]

\* time.sleep after the entry, in units of self.delay
SleepAfter(outcome) ==
    CASE outcome \in {"success", "insert_failed"} -> 1
      [] outcome = "exception" -> 2
      [] OTHER -> 0

InitB ==
    /\ \E race_list \in RaceLists, horse_list \in HorseLists, skip_existing \in BOOLEAN :
          /\ race_list = <<>> \/ horse_list = <<>>
          /\ rb = [race_list |-> race_list, skip_existing |-> skip_existing, i |-> 0,
                   stats |-> NewStats(race_list), visited |-> <<>>, slept |-> 0,
                   pc |-> "loop"]
          /\ hb = [horse_list |-> horse_list, i |-> 0, success |-> <<>>, failed |-> <<>>,
                   total_processed |-> 0, slept |-> 0, pc |-> "loop"]

IdleB ==
    /\ rb = [race_list |-> <<>>, skip_existing |-> TRUE, i |-> 0,
             stats |-> NewStats(<<>>), visited |-> <<>>, slept |-> 0, pc |-> "loop"]
    /\ hb = [horse_list |-> <<>>, i |-> 0, success |-> <<>>, failed |-> <<>>,
             total_processed |-> 0, slept |-> 0, pc |-> "loop"]

\* for i, race_info in enumerate(race_list, 1): <body>
RaceEntry(stored, detail_ok, accepted) ==
    /\ rb.pc = "loop"
    /\ rb.i < Len(rb.race_list)
    /\ LET race_id == rb.race_list[rb.i + 1]
           outcome == RaceOutcome(race_id, rb.skip_existing, stored, detail_ok, accepted)
       IN rb' = [rb EXCEPT !.i = @ + 1,
                           !.stats = Tally(@, outcome),
                           !.visited = Append(@, race_id),
                           !.slept = SleepAfter(outcome)]

\* the loop is exhausted: the summary is logged and stats returned
RaceReturn ==
    /\ rb.pc = "loop"
    /\ rb.i = Len(rb.race_list)
    /\ rb' = [rb EXCEPT !.pc = "done"]

\* for i, horse in enumerate(horse_list, 1): <body>; answer is what
\* self.detail_scraper.scrape(horse_id) does: True, False or an exception
HorseEntry(answer) ==
    /\ hb.pc = "loop"
    /\ hb.i < Len(hb.horse_list)
    /\ LET horse_id == hb.horse_list[hb.i + 1]
           total == Len(hb.horse_list)
       IN hb' = [hb EXCEPT
                   !.i = @ + 1,
                   !.success = IF answer = "True" THEN Append(@, horse_id) ELSE @,
                   !.failed = IF answer \in {"False", "exception"}
                              THEN Append(@, horse_id) ELSE @,
                   !.total_processed = @ + 1,
                   !.slept = IF hb.i + 1 < total THEN 1 ELSE 0]

HorseReturn ==
    /\ hb.pc = "loop"
    /\ hb.i = Len(hb.horse_list)
    /\ hb' = [hb EXCEPT !.pc = "done"]

RaceEntryStep ==
    /\ \E stored \in BOOLEAN, detail_ok \in BOOLEAN, accepted \in BOOLEAN :
          RaceEntry(stored, detail_ok, accepted)
    /\ UNCHANGED <<hb, restB>>
RaceReturnStep == RaceReturn /\ UNCHANGED <<hb, restB>>
HorseEntryStep ==
    /\ \E answer \in {"True", "False", "exception"} : HorseEntry(answer)
    /\ UNCHANGED <<rb, restB>>
HorseReturnStep == HorseReturn /\ UNCHANGED <<rb, restB>>

(***************************************************************************)
(* Group L: RaceScraper.scrape_race_list_by_conditions, one pass of the    *)
(* page loop per step.  Races are the dicts extract_race_list returns,     *)
(* kept as their race_id; nothing removes duplicates.                      *)
(***************************************************************************)
\* Largest limit explored by SpecRaceList.
MaxLimit == 4
\* Most races on one list page explored by SpecRaceList.
MaxPageRaces == 2

ListRaceIds == {"R1", "R2"}
\* what extract_race_list can return for one page
PageRaces == SeqsUpTo(ListRaceIds, MaxPageRaces)

\* all_races keeping every race of the page (mutant)
Truncate_Nothing(all_races, limit) == all_races

\* all_races[:limit]
Truncate(all_races, limit) == SubSeq(all_races, 1, Min(limit, Len(all_races)))

IdleL ==
    rl = [limit |-> 0, all_races |-> <<>>, page |-> 1, fetches |-> 0,
          raised |-> FALSE, returned |-> <<>>, pc |-> "loop"]

InitL ==
    \E limit \in 0..MaxLimit :
        rl = [limit |-> limit, all_races |-> <<>>, page |-> 1, fetches |-> 0,
              raised |-> FALSE, returned |-> <<>>, pc |-> "loop"]

\* while len(all_races) < limit: one pass in which the fetch and the
\* extraction succeed and yield page_races
ListPage(page_races) ==
    /\ rl.pc = "loop"
    /\ Len(rl.all_races) < rl.limit
    /\ LET extended == rl.all_races \o page_races
       IN rl' =
            IF page_races = <<>>
            THEN \* "if not page_races: break", then "return all_races"
                 [rl EXCEPT !.fetches = @ + 1, !.returned = rl.all_races,
                            !.pc = "returned"]
            ELSE IF Len(extended) >= rl.limit
            THEN \* "all_races = all_races[:limit]; break", then return
                 [rl EXCEPT !.fetches = @ + 1,
                            !.all_races = Truncate(extended, rl.limit),
                            !.returned = Truncate(extended, rl.limit),
                            !.pc = "returned"]
            ELSE \* "page += 1; time.sleep(self.delay)"
                 [rl EXCEPT !.fetches = @ + 1, !.all_races = extended,
                            !.page = @ + 1]

\* a pass in which session.get, raise_for_status or extract_race_list raises:
\* "except Exception: return all_races"
ListPageRaises ==
    /\ rl.pc = "loop"
    /\ Len(rl.all_races) < rl.limit
    /\ rl' = [rl EXCEPT !.fetches = @ + 1, !.raised = TRUE,
                        !.returned = rl.all_races, !.pc = "returned"]

\* the while condition is false on entry: "return all_races"
ListReturn ==
    /\ rl.pc = "loop"
    /\ Len(rl.all_races) >= rl.limit
    /\ rl' = [rl EXCEPT !.returned = rl.all_races, !.pc = "returned"]

ListPageStep == (\E page_races \in PageRaces : ListPage(page_races)) /\ UNCHANGED restL
ListPageRaisesStep == ListPageRaises /\ UNCHANGED restL
ListReturnStep == ListReturn /\ UNCHANGED restL

(***************************************************************************)
(* Group H: CompleteBatchProcessor._collect_horse_list over                *)
(* SimpleOffsetHorseListScraper.get_g1_horses_by_offset, one list batch    *)
(* per step.  The site is a list of pages sorted by birth year (newest     *)
(* first); past its last page it answers with an empty page, or, as an     *)
(* upstream anomaly, with its last page again.                             *)
(***************************************************************************)
\* Largest total_target explored by SpecCollect.
MaxTarget == 3
\* Largest batch_size explored by SpecCollect.
MaxBatchSize == 2
\* Most list batches of one _collect_horse_list call explored by SpecCollect.
MaxBatches == 4
\* Rows of one list page in the model (the code asks for 100 per page).
per_page == 2

min_birth_year == 2015
Horse(id, year) == [id |-> id, birth_year |-> year]

Sites ==
    LET p1 == <<Horse("H1", 2021), Horse("H2", 2020)>>
        p2 == <<Horse("H3", 2019)>>
        p2old == <<Horse("H3", 2019), Horse("H4", 2014)>>
    IN {[pages |-> <<>>, beyond |-> "empty"],
        [pages |-> <<p1>>, beyond |-> "empty"],
        [pages |-> <<p1, p2>>, beyond |-> "empty"],
        [pages |-> <<p1, p2old>>, beyond |-> "empty"],
        [pages |-> <<p1>>, beyond |-> "repeat"],
        [pages |-> <<p1, p2>>, beyond |-> "repeat"]}

\* _get_page_horses(page): the rows of the page, [] when the request fails
GetPageHorses(site, page) ==
    IF page <= Len(site.pages) THEN site.pages[page]
    ELSE IF site.beyond = "repeat" /\ site.pages # <<>>
         THEN site.pages[Len(site.pages)]
         ELSE <<>>

\* for i in range(position_in_page, len(page_horses)): ... ; i is 0-based.
\* stop: an older horse was met ("return horses")
RECURSIVE TakeFromPage(_, _, _, _)
TakeFromPage(page_horses, i, collected, max_horses) ==
    IF i >= Len(page_horses) THEN [horses |-> collected, stop |-> FALSE]
    ELSE LET horse == page_horses[i + 1] IN
         IF horse.birth_year < min_birth_year THEN [horses |-> collected, stop |-> TRUE]
         ELSE IF Len(collected) + 1 >= max_horses
              THEN [horses |-> Append(collected, horse), stop |-> FALSE]
              ELSE TakeFromPage(page_horses, i + 1, Append(collected, horse), max_horses)

\* while horses_collected < max_horses: ...
RECURSIVE PageLoop(_, _, _, _, _)
PageLoop(site, current_page, position_in_page, collected, max_horses) ==
    IF Len(collected) >= max_horses THEN collected
    ELSE LET page_horses == GetPageHorses(site, current_page) IN
         IF page_horses = <<>> THEN collected
         ELSE LET r == TakeFromPage(page_horses, position_in_page, collected, max_horses)
              IN IF r.stop THEN r.horses
                 ELSE PageLoop(site, current_page + 1, 0, r.horses, max_horses)

\* get_g1_horses_by_offset(offset, max_horses, min_birth_year)
GetG1HorsesByOffset(site, offset, max_horses) ==
    PageLoop(site, (offset \div per_page) + 1, offset % per_page, <<>>, max_horses)

\* new_horses: the horses of the batch whose id is not in all_horses
RECURSIVE NewHorses(_, _)
NewHorses(batch_horses, existing_ids) ==
    IF batch_horses = <<>> THEN <<>>
    ELSE (IF Head(batch_horses).id \notin existing_ids
          THEN <<Head(batch_horses)>> ELSE <<>>)
         \o NewHorses(Tail(batch_horses), existing_ids)

CollectStart(site, total_target, list_batch_size, start_offset) ==
    [site |-> site, total_target |-> total_target, batch_size |-> list_batch_size,
     all_horses |-> <<>>, start_offset |-> start_offset,
     current_offset |-> start_offset, batches |-> 0,
     last_batch |-> 0, last_new |-> 0, pc |-> "loop"]

IdleH == ch = CollectStart([pages |-> <<>>, beyond |-> "empty"], 0, 1, 0)

InitH ==
    \E site \in Sites, total_target \in 0..MaxTarget,
       list_batch_size \in 1..MaxBatchSize, start_offset \in 0..per_page :
        ch = CollectStart(site, total_target, list_batch_size, start_offset)

\* one pass of "while len(all_horses) < total_target"
CollectBatch ==
    /\ ch.pc = "loop"
    /\ Len(ch.all_horses) < ch.total_target
    /\ ch.batches < MaxBatches
    /\ LET remaining == ch.total_target - Len(ch.all_horses)
           current_batch_size == Min(ch.batch_size, remaining)
           batch_horses == GetG1HorsesByOffset(ch.site, ch.current_offset,
                                               current_batch_size)
           existing_ids == {ch.all_horses[k].id : k \in 1..Len(ch.all_horses)}
           new_horses == NewHorses(batch_horses, existing_ids)
       IN ch' =
            IF batch_horses = <<>>
            THEN \* "if not batch_horses: break", then "return all_horses"
                 [ch EXCEPT !.batches = @ + 1, !.last_batch = 0, !.last_new = 0,
                            !.pc = "done"]
            ELSE [ch EXCEPT !.batches = @ + 1,
                            !.all_horses = @ \o new_horses,
                            !.current_offset = @ + Len(batch_horses),
                            !.last_batch = Len(batch_horses),
                            !.last_new = Len(new_horses)]

\* the while condition is false: "return all_horses"
CollectReturn ==
    /\ ch.pc = "loop"
    /\ Len(ch.all_horses) >= ch.total_target
    /\ ch' = [ch EXCEPT !.pc = "done"]

CollectBatchStep == CollectBatch /\ UNCHANGED restH
CollectReturnStep == CollectReturn /\ UNCHANGED restH


(***************************************************************************)
(* Group P: the person-registry list scrapers (scrape_trainers,            *)
(* scrape_owners, scrape_breeders, scrape_jockeys), one pass of the page   *)
(* loop per step.  The four loops differ only in how they stop:            *)
(*   jockey   breaks before taking anything from an empty page, and after  *)
(*            a page shorter than a full page                              *)
(*   trainer, owner, breeder   break after an empty page                   *)
(* A page is the list _scrape_page returns ([] when the fetch fails); its  *)
(* rows are kept as their position on the page.                            *)
(***************************************************************************)
\* Largest limit explored by SpecPersonList.
MaxPersonLimit == 4
\* Rows of a full list page in the model (the code: 100).
full_page == 2
\* Longest page the list source answers with in the model.
MaxPersonPage == 3

PersonKinds == {"trainer", "owner", "breeder", "jockey"}
PersonPages == {[k \in 1..n |-> k] : n \in 0..MaxPersonPage}

\* a slice that keeps the whole page (mutant)
TakeFromPersonPage_All(page_rows, page_limit) == page_rows

\* page_trainers[:page_limit]
TakeFromPersonPage(page_rows, page_limit) ==
    SubSeq(page_rows, 1, Min(page_limit, Len(page_rows)))

\* the loop is left after this page
PersonLoopBreaks(kind, page_rows) ==
    IF kind = "jockey" THEN Len(page_rows) < full_page
    ELSE Len(page_rows) = 0

PersonStart(kind, limit) ==
    [kind |-> kind, limit |-> limit, remaining |-> limit, entities |-> <<>>,
     page |-> 1, fetches |-> 0, pc |-> "loop"]

IdleP == pl = PersonStart("trainer", 0)

InitP == \E kind \in PersonKinds, limit \in 0..MaxPersonLimit :
            pl = PersonStart(kind, limit)

\* while remaining > 0: one pass
PersonPage(page_rows) ==
    /\ pl.pc = "loop"
    /\ pl.remaining > 0
    /\ LET page_limit == Min(pl.remaining, full_page)
           taken == TakeFromPersonPage(page_rows, page_limit)
       IN pl' =
            IF pl.kind = "jockey" /\ page_rows = <<>>
            THEN \* "if not page_jockeys: break"
                 [pl EXCEPT !.fetches = @ + 1, !.pc = "returned"]
            ELSE [pl EXCEPT !.fetches = @ + 1,
                            !.entities = @ \o taken,
                            !.remaining = @ - Len(taken),
                            !.page = IF PersonLoopBreaks(pl.kind, page_rows)
                                     THEN @ ELSE @ + 1,
                            !.pc = IF PersonLoopBreaks(pl.kind, page_rows)
                                   THEN "returned" ELSE "loop"]

\* the while condition is false: "return trainers"
PersonReturn ==
    /\ pl.pc = "loop"
    /\ pl.remaining <= 0
    /\ pl' = [pl EXCEPT !.pc = "returned"]

PersonPageStep == (\E page_rows \in PersonPages : PersonPage(page_rows)) /\ UNCHANGED restP
PersonReturnStep == PersonReturn /\ UNCHANGED restP

(***************************************************************************)
(* Group F: the fetches and sleeps of a running scrape, one network        *)
(* request, one answer or one sleep per step.  Three programs:             *)
(*   races   RaceScraper.scrape_and_store_races(entries, skip_existing)    *)
(*   horse   HorseScraper.scrape(entries[1])                               *)
(*   horses  HorseBatchScraper._process_horses_details(entries, delay),    *)
(*           which calls HorseScraper.scrape for each entry                *)
(* A fetch is a request to the site (session.get); calls of the store are  *)
(* part of the step that follows the answer.                               *)
(***************************************************************************)
\* Longest list explored by SpecFetch.
MaxFetchItems == 3

FetchStart(prog, entries, skip_existing) ==
    [prog |-> prog, entries |-> entries, skip_existing |-> skip_existing,
     i |-> 0, pc |-> "entry", inflight |-> 0, last |-> "none", fetches |-> 0]

IdleF == fx = FetchStart("horse", <<>>, FALSE)

InitF ==
    \/ \E entries \in SeqsUpTo({None, "R1"}, MaxFetchItems), se \in BOOLEAN :
          fx = FetchStart("races", entries, se)
    \/ fx = FetchStart("horse", <<"H1">>, FALSE)
    \/ \E n \in 0..Min(MaxFetchItems, Len(BatchHorseIds)) :
          fx = FetchStart("horses", SubSeq(BatchHorseIds, 1, n), FALSE)

\* HorseScraper.scrape has returned: what its caller does next.
\* _process_horses_details: total_processed += 1; time.sleep(delay) if i < total
AfterScrape(f) ==
    IF f.prog = "horses" /\ f.i + 1 < Len(f.entries)
    THEN [f EXCEPT !.pc = "sleep_between"]
    ELSE [f EXCEPT !.i = @ + 1, !.pc = "entry"]

\* the loop head: the next entry, up to its first request
FetchEntry(stored) ==
    /\ fx.pc = "entry"
    /\ fx' =
         IF fx.i = Len(fx.entries) THEN [fx EXCEPT !.pc = "done"]
         ELSE IF fx.prog = "races"
              THEN IF fx.entries[fx.i + 1] = None
                   THEN \* stats['failed'] += 1; continue
                        [fx EXCEPT !.i = @ + 1]
                   ELSE IF fx.skip_existing /\ CheckRaceExists(stored)
                   THEN \* stats['skipped'] += 1; continue
                        [fx EXCEPT !.i = @ + 1]
                   ELSE [fx EXCEPT !.pc = "detail_get"]
              ELSE [fx EXCEPT !.pc = "detail_get"]

\* session.get(detail_url) / session.get(pedigree_url) is sent
FetchSend ==
    /\ fx.pc \in {"detail_get", "ped_get"}
    /\ fx' = [fx EXCEPT !.inflight = @ + 1, !.fetches = @ + 1,
                        !.pc = IF fx.pc = "detail_get" THEN "detail_wait"
                               ELSE "ped_wait"]

\* the request is answered (ok) or fails, and the code runs on to its next
\* request, sleep or loop head
FetchAnswer(ok) ==
    /\ fx.pc \in {"detail_wait", "ped_wait"}
    /\ LET f == [fx EXCEPT !.inflight = @ - 1, !.last = "fetch"] IN
       fx' =
         IF fx.pc = "ped_wait"
         THEN \* create_mating_relations, save_all, then self.sleep(1)
              [f EXCEPT !.pc = "sleep_1"]
         ELSE IF fx.prog = "races"
         THEN IF ~ok
              THEN \* "if not race_data: stats['failed'] += 1; continue"
                   [f EXCEPT !.i = @ + 1, !.pc = "entry"]
              ELSE IF DetailTupleLen # UnpackTargets
              THEN \* except Exception: ...; time.sleep(self.delay * 2)
                   [f EXCEPT !.pc = "sleep_long"]
              ELSE \* insert_complete_race_data; time.sleep(self.delay)
                   [f EXCEPT !.pc = "sleep_delay"]
         ELSE IF ~ok
              THEN \* "if not horse_data: return False"
                   AfterScrape(f)
              ELSE [f EXCEPT !.pc = "ped_get"]

\* time.sleep(...) / self.sleep(1)
FetchSleep ==
    /\ fx.pc \in {"sleep_1", "sleep_delay", "sleep_long", "sleep_between"}
    /\ LET f == [fx EXCEPT !.last = "sleep"] IN
       fx' =
         IF fx.pc = "sleep_1" THEN AfterScrape(f)
         ELSE [f EXCEPT !.i = @ + 1, !.pc = "entry"]

FetchEntryStep == (\E stored \in BOOLEAN : FetchEntry(stored)) /\ UNCHANGED restF
FetchSendStep == FetchSend /\ UNCHANGED restF
FetchAnswerStep ==
    /\ \E ok \in BOOLEAN : FetchAnswer(ok)
    /\ UNCHANGED restF
FetchSleepStep == FetchSleep /\ UNCHANGED restF

(***************************************************************************)
(* Group U: a function applied to an argument drawn from a bounded set.    *)
(***************************************************************************)
Pending == [done |-> FALSE]
Returned(value) == [done |-> TRUE, value |-> value]
IdleU == u_call = [fn |-> "none"] /\ u_result = Pending

(***************************************************************************)
(* Text.  A Python str is a sequence of characters; a character is a       *)
(* string.  "rarr" is the arrow U+2192, "fw1" the full-width digit one.    *)
(***************************************************************************)
Digits == {"0", "1", "2", "3", "4", "5", "6", "7", "8", "9"}
Spaces == {" "}
Arrow == "rarr"
DigitValue(c) ==
    CASE c = "0" -> 0 [] c = "1" -> 1 [] c = "2" -> 2 [] c = "3" -> 3
      [] c = "4" -> 4 [] c = "5" -> 5 [] c = "6" -> 6 [] c = "7" -> 7
      [] c = "8" -> 8 [] c = "9" -> 9

\* str.strip(): the text without its leading and trailing whitespace
RECURSIVE LStrip(_)
LStrip(text) ==
    IF text # <<>> /\ Head(text) \in Spaces THEN LStrip(Tail(text)) ELSE text
RECURSIVE RStrip(_)
RStrip(text) ==
    IF text # <<>> /\ text[Len(text)] \in Spaces
    THEN RStrip(SubSeq(text, 1, Len(text) - 1))
    ELSE text
Strip(text) == RStrip(LStrip(text))

\* int(num_str) of a run of digits
RECURSIVE ParseInt(_, _)
ParseInt(text, acc) ==
    IF text = <<>> THEN acc
    ELSE ParseInt(Tail(text), acc * 10 + DigitValue(Head(text)))

\* the position after the longest run of characters of a class from position p
RECURSIVE SkipWhile(_, _, _)
SkipWhile(text, p, class) ==
    IF p <= Len(text) /\ text[p] \in class
    THEN SkipWhile(text, p + 1, class)
    ELSE p

\* re.match(r'^\d+(\s*SEP\s*\d+){count-1}$', text): the position reached
\* after count numbers separated by sep, 0 when the text does not have them.
\* \d+, \s* and the separator share no character, so the longest run is the
\* only match.
RECURSIVE MatchNumbersFrom(_, _, _, _)
MatchNumbersFrom(text, p, sep, count) ==
    LET q == SkipWhile(text, p, Digits) IN
    IF q = p THEN 0
    ELSE IF count = 1 THEN q
    ELSE LET r == SkipWhile(text, q, Spaces) IN
         IF r <= Len(text) /\ text[r] = sep
         THEN MatchNumbersFrom(text, SkipWhile(text, r + 1, Spaces), sep, count - 1)
         ELSE 0
MatchNumbers(text, sep, count) ==
    MatchNumbersFrom(text, 1, sep, count) = Len(text) + 1

\* re.match(r'^[0-9\-→\s]+$', combination)
MatchAllowedChars(text) ==
    /\ text # <<>>
    /\ \A i \in 1..Len(text) : text[i] \in Digits \cup {"-", Arrow} \cup Spaces

\* re.findall(r'\d+', combination), each converted by int()
RECURSIVE FindNumbers(_, _)
FindNumbers(text, p) ==
    IF p > Len(text) THEN <<>>
    ELSE IF text[p] \in Digits
    THEN LET q == SkipWhile(text, p, Digits) IN
         <<ParseInt(SubSeq(text, p, q - 1), 0)>> \o FindNumbers(text, q)
    ELSE FindNumbers(text, p + 1)

(***************************************************************************)
(* RaceDataValidator (race_schema.py).  A violation list is a sequence of  *)
(* records [error |-> tag]; bet types are written in Latin letters         *)
(* (tansho = win, fukusho = place, wakuren, wakutan, umaren, wide,         *)
(* umatan, sanrenpuku, sanrentan).                                         *)
(***************************************************************************)
valid_bet_types ==
    {"tansho", "fukusho", "wakuren", "wakutan", "umaren", "wide", "umatan",
     "sanrenpuku", "sanrentan"}
min_horse_number == 1
max_horse_number == 18
race_id_length == 12

Err(tag) == [error |-> tag]
OutOfRange(num) == [error |-> "out of valid range", num |-> num]

RECURSIVE RangeErrors(_)
RangeErrors(numbers) ==
    IF numbers = <<>> THEN <<>>
    ELSE (IF Head(numbers) < min_horse_number \/ Head(numbers) > max_horse_number
          THEN <<OutOfRange(Head(numbers))>> ELSE <<>>)
         \o RangeErrors(Tail(numbers))

\* the format a bet type asks of its combination
FormatMatches_Always(bet_type, combination) == TRUE
FormatMatches(bet_type, combination) ==
    CASE bet_type \in {"tansho", "fukusho"} ->
           MatchNumbers(Strip(combination), "-", 1)
      [] bet_type \in {"wakuren", "umaren", "wide"} ->
           MatchNumbers(combination, "-", 2)
      [] bet_type \in {"wakutan", "umatan"} ->
           MatchNumbers(combination, Arrow, 2)
      [] bet_type = "sanrenpuku" -> MatchNumbers(combination, "-", 3)
      [] bet_type = "sanrentan" -> MatchNumbers(combination, Arrow, 3)
      [] OTHER -> TRUE

\* (combination is a str in every call the program makes, so re.match never
\* raises and the except branch is not taken)
ValidateCombinationFormat(bet_type, combination) ==
    IF ~MatchAllowedChars(combination)
    THEN <<Err("combination contains invalid characters")>>
    ELSE (IF FormatMatches(bet_type, combination) THEN <<>>
          ELSE <<Err("combination format")>>)
         \o RangeErrors(FindNumbers(combination, 1))

\* Optional[int]: <<>> is None, <<n>> the number n.  payout_amount is a whole
\* number of yen, so amount > Decimal('999999999.99') is amount > 999999999.
NoInt == <<>>
Int1(n) == <<n>>
max_payout_amount == 999999999
max_popularity == 99999
RaceIdErrors(race_id) ==
    IF race_id = None \/ race_id = "" \/ Len(race_id) # race_id_length
    THEN <<Err("race_id must be 12 characters")>> ELSE <<>>

ValidateRacePayout(payout) ==
    RaceIdErrors(payout.race_id)
    \o (IF payout.bet_type \notin valid_bet_types
        THEN <<Err("Invalid bet_type")>> ELSE <<>>)
    \o (IF payout.combination = <<>>
        THEN <<Err("combination is required")>>
        ELSE IF Strip(payout.combination) = <<>>
        THEN <<Err("combination cannot be empty")>>
        ELSE <<>>)
    \o (IF payout.payout_amount = NoInt
        THEN <<Err("payout_amount is required")>>
        ELSE IF payout.payout_amount[1] <= 0
        THEN <<Err("payout_amount must be positive")>>
        ELSE IF payout.payout_amount[1] > max_payout_amount
        THEN <<Err("payout_amount is too large")>>
        ELSE <<>>)
    \o (IF payout.popularity = NoInt THEN <<>>
        ELSE IF payout.popularity[1] <= 0
        THEN <<Err("popularity must be 1 or greater")>>
        ELSE IF payout.popularity[1] > max_popularity
        THEN <<Err("popularity is too large")>>
        ELSE <<>>)
    \o ValidateCombinationFormat(payout.bet_type, payout.combination)

\* RaceDetailExtractor._normalize_combination: full-width digits to ASCII
\* digits, every run of whitespace to one space, '->' to the arrow, strip
Translate(c) == IF c = "fw1" THEN "1" ELSE c
RECURSIVE CollapseSpaces(_)
CollapseSpaces(text) ==
    IF text = <<>> THEN <<>>
    ELSE IF Head(text) \in Spaces
    THEN <<" ">> \o CollapseSpaces(LStrip(text))
    ELSE <<Head(text)>> \o CollapseSpaces(Tail(text))
RECURSIVE ReplaceArrows(_)
ReplaceArrows(text) ==
    IF text = <<>> THEN <<>>
    ELSE IF Len(text) >= 2 /\ text[1] = "-" /\ text[2] = ">"
    THEN <<Arrow>> \o ReplaceArrows(SubSeq(text, 3, Len(text)))
    ELSE <<Head(text)>> \o ReplaceArrows(Tail(text))
NormalizeCombination(combination_text) ==
    Strip(ReplaceArrows(CollapseSpaces(
        [i \in 1..Len(combination_text) |-> Translate(combination_text[i])])))

\* the payout rows of a result page: the text of the combination cell is
\* normalised by _extract_payout_row before the RacePayout is built
MaxCombinationLen == 5
CombinationChars == {"0", "1", "9", " ", "-", Arrow}
RacePayout(race_id, bet_type, combination, payout_amount, popularity) ==
    [race_id |-> race_id, bet_type |-> bet_type, combination |-> combination,
     payout_amount |-> payout_amount, popularity |-> popularity]
InitU14 ==
    /\ \E bet_type \in valid_bet_types :
       \E text \in SeqsUpTo(CombinationChars, MaxCombinationLen) :
          u_call = [fn |-> "validate_race_payout",
                    payout |-> RacePayout("202408070411", bet_type,
                                          NormalizeCombination(text),
                                          Int1(100), NoInt)]
    /\ u_result = Pending
ValidateRacePayoutStep ==
    /\ u_call.fn = "validate_race_payout"
    /\ u_result = Pending
    /\ u_result' = Returned(ValidateRacePayout(u_call.payout))
    /\ UNCHANGED u_call
    /\ UNCHANGED restU

(***************************************************************************)
(* validate_race, validate_race_result, validate_payout_consistency and    *)
(* RaceScraper.scrape_race_detail.                                         *)
(***************************************************************************)
ValidateRace(race) == RaceIdErrors(race.race_id)

ValidateRaceResult(result) ==
    RaceIdErrors(result.race_id)
    \o (IF result.horse_id = None \/ result.horse_id = ""
        THEN <<Err("horse_id is required")>> ELSE <<>>)

PayoutKey(payout) == <<payout.bet_type, payout.combination>>
Duplicate(payout) ==
    [error |-> "Duplicate payout", bet_type |-> payout.bet_type,
     combination |-> payout.combination]
\* the loop over the payouts with the set combinations_seen
DuplicateErrors_None(payouts, combinations_seen) == <<>>
RECURSIVE DuplicateErrors(_, _)
DuplicateErrors(payouts, combinations_seen) ==
    IF payouts = <<>> THEN <<>>
    ELSE (IF PayoutKey(Head(payouts)) \in combinations_seen
          THEN <<Duplicate(Head(payouts))>> ELSE <<>>)
         \o DuplicateErrors(Tail(payouts),
                            combinations_seen \cup {PayoutKey(Head(payouts))})
expected_basic_types == {"tansho", "fukusho"}
ValidatePayoutConsistency(payouts) ==
    LET race_ids == {payouts[i].race_id : i \in 1..Len(payouts)}
        bet_types_found == {payouts[i].bet_type : i \in 1..Len(payouts)}
        missing_basic == expected_basic_types \ bet_types_found
    IN  (IF Cardinality(race_ids) > 1
         THEN <<[error |-> "Mixed race_ids", race_ids |-> race_ids]>>
         ELSE <<>>)
        \o DuplicateErrors(payouts, {})
        \o (IF missing_basic # {}
            THEN <<[error |-> "Warning: Missing basic bet types",
                    missing_basic |-> missing_basic]>>
            ELSE <<>>)

\* the payout lists validate_payout_consistency is applied to
MaxPayouts == 3
ConsistencyPayouts ==
    {RacePayout(race_id, bet_type, combination, Int1(100), NoInt) :
        race_id \in {"202408070411", "202408070412"},
        bet_type \in {"tansho", "fukusho", "umaren"},
        combination \in {<<"1">>, <<"1", "-", "2">>}}
InitU15 ==
    /\ \E payouts \in SeqsUpTo(ConsistencyPayouts, MaxPayouts) :
          u_call = [fn |-> "validate_payout_consistency", payouts |-> payouts]
    /\ u_result = Pending
ValidatePayoutConsistencyStep ==
    /\ u_call.fn = "validate_payout_consistency"
    /\ u_result = Pending
    /\ u_result' = Returned(ValidatePayoutConsistency(u_call.payouts))
    /\ UNCHANGED u_call
    /\ UNCHANGED restU

\* scrape_race_detail: None is the empty tuple, a warning is a logged line
NoDetail == <<>>
RECURSIVE ConcatAll(_)
ConcatAll(lists) ==
    IF lists = <<>> THEN <<>> ELSE Head(lists) \o ConcatAll(Tail(lists))
DetailWarnings(race_data) ==
    LET race == race_data[1]
        results == race_data[2]
        payouts == race_data[3]
    IN  ValidateRace(race)
        \o ConcatAll([i \in 1..Len(results) |-> ValidateRaceResult(results[i])])
        \o ConcatAll([i \in 1..Len(payouts) |-> ValidateRacePayout(payouts[i])])
        \o (IF payouts # <<>> THEN ValidatePayoutConsistency(payouts) ELSE <<>>)
ScrapeRaceDetail_Reject(fetched, race_data) ==
    IF ~fetched \/ race_data = NoDetail \/ DetailWarnings(race_data) # <<>>
    THEN [value |-> NoDetail, warnings |-> <<>>]
    ELSE [value |-> race_data, warnings |-> <<>>]
ScrapeRaceDetail(fetched, race_data) ==
    IF ~fetched THEN [value |-> NoDetail, warnings |-> <<>>]
    ELSE IF race_data = NoDetail THEN [value |-> NoDetail, warnings |-> <<>>]
    ELSE [value |-> race_data, warnings |-> DetailWarnings(race_data)]

\* what extract_race_detail gives for the page of race_id: nothing, or a race,
\* at least one result and the payouts, all carrying race_id
MaxDetailRows == 2
DetailRaceIds == {"202408070411", "2024"}
DetailResult(race_id, horse_id) ==
    [race_id |-> race_id, horse_id |-> horse_id, horse_name |-> horse_id]
DetailPayouts(race_id) ==
    {RacePayout(race_id, bet_type, combination, Int1(100), popularity) :
        bet_type \in {"tansho", "fukusho"},
        combination \in {<<"1">>, <<"1", "9">>},
        popularity \in {NoInt, Int1(0)}}
Extracted(race_id) ==
    {NoDetail} \cup
    {<<[race_id |-> race_id], results, payouts>> :
        results \in SeqsUpTo({DetailResult(race_id, horse_id) :
                                 horse_id \in {"H1", "UNKNOWN"}}, MaxDetailRows)
                    \ {<<>>},
        payouts \in SeqsUpTo(DetailPayouts(race_id), MaxDetailRows)}
InitU13 ==
    /\ \E race_id \in DetailRaceIds, fetched \in BOOLEAN :
       \E race_data \in Extracted(race_id) :
          u_call = [fn |-> "scrape_race_detail", race_id |-> race_id,
                    fetched |-> fetched, race_data |-> race_data]
    /\ u_result = Pending
ScrapeRaceDetailStep ==
    /\ u_call.fn = "scrape_race_detail"
    /\ u_result = Pending
    /\ u_result' = Returned(ScrapeRaceDetail(u_call.fetched, u_call.race_data))
    /\ UNCHANGED u_call
    /\ UNCHANGED restU

(***************************************************************************)
(* FieldParser.parse_prize (the same code is in                            *)
(* HorseDetailScraper.extract_field_value).  "oku" is the character for    *)
(* 10^8, "man" the character for 10^4 and "en" the yen character, so the   *)
(* unit of ten thousand yen is the two characters "man", "en".             *)
(***************************************************************************)
Contains(text, sub) ==
    \E i \in 1..(Len(text) - Len(sub) + 1) :
        SubSeq(text, i, i + Len(sub) - 1) = sub
NoMatch == <<>>
FirstOf(S) == CHOOSE i \in S : \A j \in S : i <= j

\* re.search(r'(\d+)oku', text).group(1)
SearchOku(text) ==
    LET starts == {i \in 1..Len(text) :
                     /\ text[i] \in Digits
                     /\ SkipWhile(text, i, Digits) <= Len(text)
                     /\ text[SkipWhile(text, i, Digits)] = "oku"}
    IN  IF starts = {} THEN NoMatch
        ELSE SubSeq(text, FirstOf(starts),
                    SkipWhile(text, FirstOf(starts), Digits) - 1)

\* re.search(r'(\d{1,4})man en', text).group(1): the group ends where the
\* unit begins, so one start has one length
ManGroupEnd(text, i) ==
    LET ends == {k \in 1..4 :
                   /\ i + k + 1 <= Len(text)
                   /\ \A j \in i..(i + k - 1) : text[j] \in Digits
                   /\ text[i + k] = "man" /\ text[i + k + 1] = "en"}
    IN  IF ends = {} THEN 0 ELSE i + FirstOf(ends) - 1
SearchMan(text) ==
    LET starts == {i \in 1..Len(text) : ManGroupEnd(text, i) # 0}
    IN  IF starts = {} THEN NoMatch
        ELSE SubSeq(text, FirstOf(starts), ManGroupEnd(text, FirstOf(starts)))

\* re.search(r'([\d,]+)man en', text).group(1)
SearchPrize(text) ==
    LET class == Digits \cup {","}
        starts == {i \in 1..Len(text) :
                     /\ text[i] \in class
                     /\ SkipWhile(text, i, class) + 1 <= Len(text)
                     /\ text[SkipWhile(text, i, class)] = "man"
                     /\ text[SkipWhile(text, i, class) + 1] = "en"}
    IN  IF starts = {} THEN NoMatch
        ELSE SubSeq(text, FirstOf(starts),
                    SkipWhile(text, FirstOf(starts), class) - 1)

\* int(group.replace(',', '')): int('') raises ValueError
IntOfGroup(group) ==
    LET digits == SelectSeq(group, LAMBDA c : c # ",")
    IN  IF digits = <<>> THEN [raises |-> "ValueError"]
        ELSE [value |-> ParseInt(digits, 0)]

ParsePrize(text) ==
    IF Contains(text, <<"oku">>) /\ Contains(text, <<"man", "en">>)
    THEN IF SearchOku(text) # NoMatch /\ SearchMan(text) # NoMatch
         THEN LET oku == ParseInt(SearchOku(text), 0) * 10000
                  man == IntOfGroup(SearchMan(text))
              IN  [value |-> oku + man.value]
         ELSE [value |-> 0]
    ELSE IF Contains(text, <<"man", "en">>)
    THEN IF SearchPrize(text) # NoMatch
         THEN IntOfGroup(SearchPrize(text))
         ELSE [value |-> 0]
    ELSE [value |-> 0]

\* the prize cell of a horse page: an amount of oku (left out when 0), an
\* amount of man with or without thousands separator, the unit or no unit
OkuAmounts == {0, 1, 17, 120}
ManAmounts == {0, 7, 42, 500, 999, 1000, 2500, 5655, 9999, 12345}
DigitChar(n) ==
    CASE n = 0 -> "0" [] n = 1 -> "1" [] n = 2 -> "2" [] n = 3 -> "3"
      [] n = 4 -> "4" [] n = 5 -> "5" [] n = 6 -> "6" [] n = 7 -> "7"
      [] n = 8 -> "8" [] n = 9 -> "9"
RECURSIVE DigitsOf(_)
DigitsOf(n) ==
    IF n < 10 THEN <<DigitChar(n)>>
    ELSE DigitsOf(n \div 10) \o <<DigitChar(n % 10)>>
WithSeparator(digits) ==
    IF Len(digits) <= 3 THEN digits
    ELSE SubSeq(digits, 1, Len(digits) - 3) \o <<",">>
         \o SubSeq(digits, Len(digits) - 2, Len(digits))
PrizeText(oku_amount, man_amount, separator, unit) ==
    (IF oku_amount > 0 THEN DigitsOf(oku_amount) \o <<"oku">> ELSE <<>>)
    \o (IF separator THEN WithSeparator(DigitsOf(man_amount))
        ELSE DigitsOf(man_amount))
    \o (IF unit THEN <<"man", "en">> ELSE <<>>)
InitU16 ==
    /\ \E oku_amount \in OkuAmounts, man_amount \in ManAmounts,
          separator \in BOOLEAN, unit \in BOOLEAN :
          /\ (oku_amount > 0 => unit /\ man_amount <= 9999)
          /\ u_call = [fn |-> "parse_prize",
                       text |-> PrizeText(oku_amount, man_amount, separator, unit),
                       oku_amount |-> oku_amount,
                       man_amount |-> man_amount, unit |-> unit]
    /\ u_result = Pending
ParsePrizeStep ==
    /\ u_call.fn = "parse_prize"
    /\ u_result = Pending
    /\ u_result' = Returned(ParsePrize(u_call.text))
    /\ UNCHANGED u_call
    /\ UNCHANGED restU

(***************************************************************************)
(* Trainer / Owner / Breeder.update_stats and TrainerPerformance /         *)
(* OwnerPerformance / BreederPerformance.calculate_rates.  A rate is a     *)
(* Decimal with two places, written here as its number of hundredths       *)
(* (12.5 is 1250).                                                         *)
(***************************************************************************)
\* Decimal(str(round((count / races) * 100, 2))), in hundredths: the nearest
\* hundredth of count * 100 / races, the even one of two equally near (two
\* hundredths are equally near only when races is a multiple of 32)
Round2(count, races) ==
    LET scaled == count * 10000
        low == scaled \div races
        twice == 2 * (scaled % races)
    IN  IF twice < races THEN low
        ELSE IF twice > races THEN low + 1
        ELSE IF low % 2 = 0 THEN low ELSE low + 1

CalculateWinRate(obj) ==
    IF obj.races > 0 THEN Round2(obj.wins, obj.races) ELSE 0
CalculateSecondRate(obj) ==
    IF obj.races > 0 THEN Round2(obj.wins + obj.seconds, obj.races) ELSE 0
CalculateShowRate(obj) ==
    IF obj.races > 0
    THEN Round2(obj.wins + obj.seconds + obj.thirds, obj.races) ELSE 0
UpdateStats(obj) ==
    [obj EXCEPT !.win_rate = CalculateWinRate(obj),
                !.second_rate = CalculateSecondRate(obj),
                !.show_rate = CalculateShowRate(obj)]
CalculateRates(obj) ==
    IF obj.races > 0
    THEN [obj EXCEPT !.win_rate = Round2(obj.wins, obj.races),
                     !.second_rate = Round2(obj.wins + obj.seconds, obj.races),
                     !.show_rate =
                         Round2(obj.wins + obj.seconds + obj.thirds, obj.races)]
    ELSE obj

\* the objects the two methods are applied to: races is total_races of a
\* Trainer, Owner or Breeder and races of a ...Performance
MaxRaces == 4
EntityKinds == {"Trainer", "Owner", "Breeder"}
RatesBefore == {0, 3333, 10000}
StatObjects ==
    {[races |-> races, wins |-> wins, seconds |-> seconds, thirds |-> thirds,
      win_rate |-> before, second_rate |-> before, show_rate |-> before] :
        races \in 0..MaxRaces, wins \in 0..MaxRaces, seconds \in 0..MaxRaces,
        thirds \in 0..MaxRaces, before \in RatesBefore}
InitU17 ==
    /\ \E fn \in {"update_stats", "calculate_rates"}, kind \in EntityKinds :
       \E obj \in StatObjects :
          /\ obj.wins + obj.seconds + obj.thirds <= obj.races
          /\ u_call = [fn |-> fn, kind |-> kind, obj |-> obj]
    /\ u_result = Pending
UpdateStatsStep ==
    /\ u_call.fn = "update_stats"
    /\ u_result = Pending
    /\ u_result' = Returned(UpdateStats(u_call.obj))
    /\ UNCHANGED u_call
    /\ UNCHANGED restU
CalculateRatesStep ==
    /\ u_call.fn = "calculate_rates"
    /\ u_result = Pending
    /\ u_result' = Returned(CalculateRates(u_call.obj))
    /\ UNCHANGED u_call
    /\ UNCHANGED restU

(***************************************************************************)
(* RaceDetailExtractor: the rows of the result table.  A cell is its text  *)
(* (a sequence of characters) and the link in it, if any; the href of a    *)
(* link is the sequence of its path segments (/horse/H1/ is "horse", "H1").*)
(* "male", "female" and "gelding" are the three sex characters, "east" and *)
(* "west" the two region characters.                                       *)
(***************************************************************************)
NoLink == [linked |-> FALSE]
Link(text, href) == [linked |-> TRUE, text |-> text, href |-> href]
Cell(text, link) == [text |-> text, link |-> link]

\* _parse_int: int(text.strip()), None when it is not a number
ParseOptionalInt(text) ==
    LET stripped == Strip(text)
        unsigned == IF stripped # <<>> /\ Head(stripped) \in {"+", "-"}
                    THEN Tail(stripped) ELSE stripped
    IN  IF unsigned = <<>> \/ \E i \in 1..Len(unsigned) : unsigned[i] \notin Digits
        THEN NoInt
        ELSE IF Head(stripped) = "-" THEN Int1(0 - ParseInt(unsigned, 0))
        ELSE Int1(ParseInt(unsigned, 0))

\* _parse_decimal: Decimal(text.strip().replace(',', '')), None when empty or
\* not a number; a Decimal is kept as the digits it was written with
NoDecimal == [decimal |-> "None"]
DecimalOf(digits) == [decimal |-> digits]
ParseDecimal(text) ==
    LET cleaned_text == SelectSeq(Strip(text), LAMBDA c : c # ",")
        points == {i \in 1..Len(cleaned_text) : cleaned_text[i] = "."}
    IN  IF cleaned_text = <<>> THEN NoDecimal
        ELSE IF /\ \A i \in 1..Len(cleaned_text) : cleaned_text[i] \in Digits \cup {"."}
                /\ Cardinality(points) <= 1
                /\ Cardinality(points) < Len(cleaned_text)
        THEN DecimalOf(cleaned_text)
        ELSE NoDecimal
\* bool(Decimal): false for zero
DecimalIsZero(dec) ==
    \A i \in 1..Len(dec.decimal) : dec.decimal[i] \in {"0", "."}

\* _parse_sex_age: re.match(r'([sex])(\d+)', text.strip())
SexChars == {"male", "female", "gelding"}
ParseSexAge(sex_age) ==
    LET stripped == Strip(sex_age) IN
    IF /\ Len(stripped) >= 2 /\ stripped[1] \in SexChars /\ stripped[2] \in Digits
    THEN <<stripped[1],
           Int1(ParseInt(SubSeq(stripped, 2, SkipWhile(stripped, 2, Digits) - 1), 0))>>
    ELSE <<None, NoInt>>

\* _parse_horse_weight: re.match(r'(\d+)\(([+-]?\d+)\)', text.strip())
ParseHorseWeight(weight_text) ==
    LET stripped == Strip(weight_text)
        p == SkipWhile(stripped, 1, Digits)
        signed == p + 1 <= Len(stripped) /\ stripped[p + 1] \in {"+", "-"}
        q == IF signed THEN p + 2 ELSE p + 1
        r == SkipWhile(stripped, q, Digits)
    IN  IF /\ p > 1 /\ p <= Len(stripped) /\ stripped[p] = "("
           /\ r > q /\ r <= Len(stripped) /\ stripped[r] = ")"
        THEN <<Int1(ParseInt(SubSeq(stripped, 1, p - 1), 0)),
               Int1((IF signed /\ stripped[p + 1] = "-" THEN 0 - 1 ELSE 1)
                    * ParseInt(SubSeq(stripped, q, r - 1), 0))>>
        ELSE <<NoInt, NoInt>>

\* _extract_id_from_url: the segment after /horse/, /jockey/result/recent/,
\* /trainer/result/recent/ or /owner/result/recent/
IdPrefix(entity_type) ==
    IF entity_type = "horse" THEN <<"horse">>
    ELSE <<entity_type, "result", "recent">>
ExtractIdFromUrl(href, entity_type) ==
    LET prefix == IdPrefix(entity_type)
        starts == {i \in 1..(Len(href) - Len(prefix)) :
                     SubSeq(href, i, i + Len(prefix) - 1) = prefix}
    IN  IF starts = {} THEN None
        ELSE href[FirstOf(starts) + Len(prefix)]

\* _extract_trainer_info(cells, 18) and _extract_owner_info(cells, 19); index
\* counts from 0 as in the source
ExtractTrainerInfo(cells, index) ==
    IF Len(cells) > index
    THEN LET trainer_cell == cells[index + 1]
             trainer_elem == trainer_cell.link
             regions == {i \in 1..(Len(trainer_cell.text) - 2) :
                           /\ trainer_cell.text[i] = "["
                           /\ trainer_cell.text[i + 1] \in {"east", "west"}
                           /\ trainer_cell.text[i + 2] = "]"}
         IN  [trainer_name |-> IF trainer_elem.linked
                               THEN Strip(trainer_elem.text) ELSE <<>>,
              trainer_region |-> IF regions = {} THEN None
                                 ELSE trainer_cell.text[FirstOf(regions) + 1],
              trainer_id |-> IF trainer_elem.linked
                             THEN ExtractIdFromUrl(trainer_elem.href, "trainer")
                             ELSE None]
    ELSE [trainer_name |-> <<>>, trainer_region |-> None, trainer_id |-> None]
ExtractOwnerInfo(cells, index) ==
    IF Len(cells) > index /\ cells[index + 1].link.linked
    THEN [owner_name |-> Strip(cells[index + 1].link.text),
          owner_id |-> ExtractIdFromUrl(cells[index + 1].link.href, "owner")]
    ELSE [owner_name |-> <<>>, owner_id |-> None]

\* _extract_race_result_row; None is NoResult
NoResult == [result |-> FALSE]
TooFewCells_AllColumns(cells) == Len(cells) < 21
TooFewCells(cells) == Len(cells) < 15
NameOrText(cell) ==
    IF cell.link.linked THEN Strip(cell.link.text) ELSE Strip(cell.text)
IdOf(cell, entity_type) ==
    IF cell.link.linked THEN ExtractIdFromUrl(cell.link.href, entity_type)
    ELSE None
ExtractRaceResultRow(cells, race_id) ==
    IF TooFewCells(cells) THEN NoResult
    ELSE
    LET horse_number == ParseOptionalInt(cells[3].text)
        horse_id == IdOf(cells[4], "horse")
        sex_age == ParseSexAge(cells[5].text)
        jockey_weight == ParseDecimal(cells[6].text)
        weight == IF Len(cells) > 14 THEN ParseHorseWeight(cells[15].text)
                  ELSE <<NoInt, NoInt>>
        trainer == ExtractTrainerInfo(cells, 18)
        owner == ExtractOwnerInfo(cells, 19)
        bracket_number == ParseOptionalInt(cells[2].text)
    IN  [result |-> TRUE,
         race_id |-> race_id,
         horse_id |-> IF horse_id = None
                      THEN <<"UNKNOWN", race_id, horse_number>>
                      ELSE <<horse_id>>,
         horse_name |-> NameOrText(cells[4]),
         finish_position |-> ParseOptionalInt(cells[1].text),
         bracket_number |-> IF bracket_number = NoInt THEN 0 ELSE bracket_number[1],
         horse_number |-> IF horse_number = NoInt THEN 0 ELSE horse_number[1],
         age |-> IF sex_age[2] = NoInt THEN 0 ELSE sex_age[2][1],
         sex |-> IF sex_age[1] = None THEN "unknown" ELSE sex_age[1],
         jockey_weight |-> IF jockey_weight = NoDecimal \/ DecimalIsZero(jockey_weight)
                           THEN DecimalOf(<<"0">>) ELSE jockey_weight,
         jockey_id |-> IdOf(cells[7], "jockey"),
         jockey_name |-> NameOrText(cells[7]),
         trainer_region |-> trainer.trainer_region,
         trainer_id |-> trainer.trainer_id,
         trainer_name |-> trainer.trainer_name,
         race_time |-> Strip(cells[8].text),
         time_diff |-> Strip(cells[9].text),
         passing_order |-> IF Len(cells) > 10 THEN Strip(cells[11].text) ELSE <<>>,
         last_3f |-> IF Len(cells) > 11 THEN ParseDecimal(cells[12].text) ELSE NoDecimal,
         odds |-> IF Len(cells) > 12 THEN ParseDecimal(cells[13].text) ELSE NoDecimal,
         popularity |-> IF Len(cells) > 13 THEN ParseOptionalInt(cells[14].text) ELSE NoInt,
         horse_weight |-> weight[1],
         weight_change |-> weight[2],
         prize_money |-> IF Len(cells) > 20 THEN ParseDecimal(cells[21].text)
                         ELSE NoDecimal,
         owner_id |-> owner.owner_id,
         owner_name |-> owner.owner_name]

\* the rows of a result page: the first cell_count cells of a row of the
\* table, with numbers or with other text in the number cells, with or
\* without links in the name cells
MaxCells == 21
CellAt(i, numeric, linked) ==
    LET plain(text) == Cell(text, NoLink)
        named(text, href) ==
            Cell(text, IF linked THEN Link(text, href) ELSE NoLink)
    IN  CASE i = 1 -> plain(IF numeric THEN <<"1">> ELSE <<"x">>)
          [] i = 2 -> plain(IF numeric THEN <<"3">> ELSE <<>>)
          [] i = 3 -> plain(IF numeric THEN <<" ", "5">> ELSE <<>>)
          [] i = 4 -> named(<<"D", "I">>, <<"horse", "H1">>)
          [] i = 5 -> plain(IF numeric THEN <<"female", "2">> ELSE <<"2">>)
          [] i = 6 -> plain(IF numeric THEN <<"5", "5", ".", "0">> ELSE <<"0">>)
          [] i = 7 -> named(<<"J">>, <<"jockey", "result", "recent", "J1">>)
          [] i = 8 -> plain(<<"1", ":", "3", "3", ".", "5">>)
          [] i = 9 -> plain(<<>>)
          [] i = 11 -> plain(<<"3", "-", "3">>)
          [] i = 12 -> plain(IF numeric THEN <<"3", "4", ".", "1">> ELSE <<>>)
          [] i = 13 -> plain(IF numeric THEN <<"2", ".", "4">> ELSE <<"-", "-">>)
          [] i = 14 -> plain(IF numeric THEN <<"1">> ELSE <<>>)
          [] i = 15 -> plain(IF numeric THEN <<"4", "8", "4", "(", "-", "2", ")">>
                             ELSE <<"x">>)
          [] i = 19 -> named(<<"[", "west", "]", "T">>,
                             <<"trainer", "result", "recent", "T1">>)
          [] i = 20 -> named(<<"O">>, <<"owner", "result", "recent", "O1">>)
          [] i = 21 -> plain(IF numeric THEN <<"1", ",", "5", "0", "0", ".", "0">>
                             ELSE <<>>)
          [] OTHER -> plain(<<>>)
RowCells(cell_count, numeric, linked) ==
    [i \in 1..cell_count |-> CellAt(i, numeric, linked)]
InitU18 ==
    /\ \E cell_count \in 0..MaxCells, numeric \in BOOLEAN, linked \in BOOLEAN :
          u_call = [fn |-> "_extract_race_result_row",
                    cells |-> RowCells(cell_count, numeric, linked),
                    race_id |-> "202408070411"]
    /\ u_result = Pending
ExtractRaceResultRowStep ==
    /\ u_call.fn = "_extract_race_result_row"
    /\ u_result = Pending
    /\ u_result' = Returned(ExtractRaceResultRow(u_call.cells, u_call.race_id))
    /\ UNCHANGED u_call
    /\ UNCHANGED restU

(***************************************************************************)
(* RaceDetailExtractor.extract_race_detail.  A page says which of its      *)
(* parts are there: the race-data section and the heading in it, the       *)
(* result table with its tr rows (the first is the header), the payout     *)
(* block with the rows of its tables.                                      *)
(***************************************************************************)
\* _normalize_bet_type: the text of the first cell (a sequence of words, a
\* bet type name being one word), else the first css class that names a bet
\* type
class_mapping ==
    [tan |-> "tansho", fuku |-> "fukusho", waku |-> "wakuren",
     uren |-> "umaren", wide |-> "wide", utan |-> "umatan",
     sanfuku |-> "sanrenpuku", santan |-> "sanrentan"]
NormalizeBetType(bet_text, css_classes) ==
    LET known == {i \in 1..Len(css_classes) :
                    css_classes[i] \in DOMAIN class_mapping}
    IN  IF Len(bet_text) = 1 /\ bet_text[1] \in valid_bet_types
        THEN bet_text[1]
        ELSE IF known = {} THEN None
        ELSE IF css_classes[FirstOf(known)] = "waku"
        THEN (IF \E i \in 1..Len(bet_text) : bet_text[i] = "wakutan"
              THEN "wakutan" ELSE "wakuren")
        ELSE class_mapping[css_classes[FirstOf(known)]]

\* _extract_payout_row: one RacePayout per line of the combination cell
\* whose amount is a positive number; a line without amount raises
\* IndexError and is left out
\* a pairing that drops the amounts that are not positive numbers before it
\* pairs by index, so that the later amounts move up (mutant)
PayoutOfLine_Shifted(row, i, race_id, bet_type) ==
    LET cleaned(amount) == Strip(SelectSeq(amount, LAMBDA c : c # ","))
        usable == SelectSeq(row.payout_amounts,
                            LAMBDA amount :
                               /\ cleaned(amount) # <<>>
                               /\ \A k \in 1..Len(cleaned(amount)) :
                                     cleaned(amount)[k] \in Digits
                               /\ ParseInt(cleaned(amount), 0) > 0)
    IN  IF i > Len(usable) THEN <<>>
        ELSE <<RacePayout(race_id, bet_type, NormalizeCombination(row.combinations[i]),
                          Int1(ParseInt(cleaned(usable[i]), 0)),
                          IF i <= Len(row.popularities)
                          THEN ParseOptionalInt(row.popularities[i]) ELSE NoInt)>>
PayoutOfLine(row, i, race_id, bet_type) ==
    LET combination == NormalizeCombination(row.combinations[i])
        payout_text == IF i <= Len(row.payout_amounts)
                       THEN Strip(SelectSeq(row.payout_amounts[i],
                                            LAMBDA c : c # ","))
                       ELSE <<>>
        popularity == IF i <= Len(row.popularities)
                      THEN ParseOptionalInt(row.popularities[i]) ELSE NoInt
    IN  IF \/ i > Len(row.payout_amounts)
           \/ payout_text = <<>>
           \/ \E k \in 1..Len(payout_text) : payout_text[k] \notin Digits
           \/ ParseInt(payout_text, 0) <= 0
           \/ combination = <<>>
        THEN <<>>
        ELSE <<RacePayout(race_id, bet_type, combination,
                          Int1(ParseInt(payout_text, 0)), popularity)>>
ExtractPayoutRow(row, race_id) ==
    LET bet_type == NormalizeBetType(row.bet_text, row.css_classes) IN
    IF row.cell_count < 4 \/ bet_type = None THEN <<>>
    ELSE ConcatAll([i \in 1..Len(row.combinations) |->
                       PayoutOfLine(row, i, race_id, bet_type)])

\* _extract_race_payouts
ExtractRacePayouts(page, race_id) ==
    IF ~page.pay_block THEN <<>>
    ELSE ConcatAll([i \in 1..Len(page.pay_rows) |->
                       ExtractPayoutRow(page.pay_rows[i], race_id)])

\* _extract_race_results: the rows after the header that give a RaceResult
ExtractRaceResults(page, race_id) ==
    IF ~page.result_table THEN <<>>
    ELSE LET rows == IF page.rows = <<>> THEN <<>> ELSE Tail(page.rows)
         IN  SelectSeq([i \in 1..Len(rows) |->
                           ExtractRaceResultRow(rows[i], race_id)],
                       LAMBDA result : result # NoResult)

\* Optional[str]: None is NoText, a text is Text1(text)
NoText == <<>>
Text1(text) == <<text>>

\* _extract_additional_race_info with the rows that gave a result counted
\* instead of the rows of the table (mutant)
ExtractAdditionalRaceInfo_CountResults(page) ==
    LET data_rows == IF page.rows = <<>> THEN <<>> ELSE Tail(page.rows)
    IN  [total_horses |-> Len(SelectSeq(data_rows, LAMBDA cells : Len(cells) >= 15)),
         winning_time |-> IF Len(data_rows) > 0 /\ Len(data_rows[1]) > 7
                          THEN Text1(Strip(data_rows[1][8].text)) ELSE NoText]

\* _extract_additional_race_info: total_horses is len(rows) - 1, winning_time
\* the eighth cell of rows[1]; info.get('total_horses', 0) and
\* info.get('winning_time') give 0 and None for what is not there
ExtractAdditionalRaceInfo(page) ==
    IF ~page.result_table \/ page.rows = <<>>
    THEN [total_horses |-> 0, winning_time |-> NoText]
    ELSE [total_horses |-> Len(page.rows) - 1,
          winning_time |-> IF Len(page.rows) > 1 /\ Len(page.rows[2]) > 7
                           THEN Text1(Strip(page.rows[2][8].text)) ELSE NoText]

\* _extract_race_info: None is NoRaceInfo; what the page does not say gets
\* the default of the source (race_number 1, distance 0, total_horses 0)
NoRaceInfo == [race |-> FALSE]
ExtractRaceInfo_Defaults(page, race_id) ==
    [race |-> TRUE, race_id |-> race_id, race_name |-> <<>>,
     race_number |-> 1, distance |-> 0, total_horses |-> 0]
ExtractRaceInfo(page, race_id) ==
    IF ~page.race_data THEN NoRaceInfo
    ELSE IF ~page.heading THEN NoRaceInfo
    ELSE [race |-> TRUE,
          race_id |-> race_id,
          race_name |-> Strip(page.race_name),
          race_number |-> IF page.race_number = NoInt THEN 1
                          ELSE page.race_number[1],
          distance |-> IF page.distance = NoInt THEN 0 ELSE page.distance[1],
          total_horses |-> ExtractAdditionalRaceInfo(page).total_horses,
          winning_time |-> ExtractAdditionalRaceInfo(page).winning_time]

ExtractRaceDetail(page, race_id) ==
    LET race == ExtractRaceInfo(page, race_id)
        results == ExtractRaceResults(page, race_id)
        payouts == ExtractRacePayouts(page, race_id)
    IN  IF race = NoRaceInfo THEN NoDetail
        ELSE IF results = <<>> THEN NoDetail
        ELSE <<race, results, payouts>>

\* the pages: up to MaxRows tr rows in the result table, each the header, a
\* row of 14 cells or a row of 15 or of 21 cells; up to one payout row
MaxRows == 3
HeaderRow == <<>>
PageRows == {HeaderRow, RowCells(14, TRUE, TRUE), RowCells(15, TRUE, FALSE),
             RowCells(21, TRUE, TRUE)}
PayRows ==
    {[cell_count |-> 4, bet_text |-> bet_text, css_classes |-> <<"tan">>,
      combinations |-> <<<<"fw1">>, <<"1", " ", "-", ">", "2">>>>,
      payout_amounts |-> payout_amounts, popularities |-> <<<<"1">>>>] :
        bet_text \in {<<"fukusho">>, <<"x">>},
        payout_amounts \in {<<<<"1", ",", "2", "0", "0">>, <<"0">>>>,
                            <<<<"3", "5", "0">>>>}}
Pages ==
    {[race_data |-> race_data, heading |-> heading,
      race_name |-> <<"G", "1", " ">>, race_number |-> Int1(11),
      distance |-> distance, result_table |-> result_table, rows |-> rows,
      pay_block |-> pay_block, pay_rows |-> pay_rows] :
        race_data \in BOOLEAN, heading \in BOOLEAN,
        distance \in {NoInt, Int1(2000)}, result_table \in BOOLEAN,
        rows \in SeqsUpTo(PageRows, MaxRows), pay_block \in BOOLEAN,
        pay_rows \in SeqsUpTo(PayRows, 1)}
InitU19 ==
    /\ \E page \in Pages :
          /\ (~page.race_data => ~page.heading)
          /\ (~page.result_table => page.rows = <<>>)
          /\ (~page.pay_block => page.pay_rows = <<>>)
          /\ u_call = [fn |-> "extract_race_detail", page |-> page,
                       race_id |-> "202408070411"]
    /\ u_result = Pending
ExtractRaceDetailStep ==
    /\ u_call.fn = "extract_race_detail"
    /\ u_result = Pending
    /\ u_result' = Returned(ExtractRaceDetail(u_call.page, u_call.race_id))
    /\ UNCHANGED u_call
    /\ UNCHANGED restU

(***************************************************************************)
(* Skip-if-present: a whole call of RaceScraper.scrape_and_store_races and *)
(* of HorseBatchScraper.run_batch_collection, with the ids the store holds *)
(* at the call.                                                            *)
(***************************************************************************)
\* the loop of scrape_and_store_races: the outcome of every entry, the
\* counters, the races scrape_race_detail was called for and the races
\* insert_complete_race_data stored
RECURSIVE TallyAll(_, _)
TallyAll(stats, outcomes) ==
    IF outcomes = <<>> THEN stats
    ELSE TallyAll(Tally(stats, Head(outcomes)), Tail(outcomes))
ScrapeAndStoreRaces(race_list, skip_existing, persisted, fetchable) ==
    LET outcomes == [i \in 1..Len(race_list) |->
                        RaceOutcome(race_list[i], skip_existing,
                                    race_list[i] \in persisted,
                                    race_list[i] \in fetchable, TRUE)]
    IN  [stats |-> TallyAll(NewStats(race_list), outcomes),
         fetched |-> {race_list[i] : i \in {k \in 1..Len(race_list) :
                         outcomes[k] \notin {"missing_race_id", "skipped"}}},
         written |-> {race_list[i] : i \in {k \in 1..Len(race_list) :
                         outcomes[k] = "success"}}]

\* _filter_existing_horses: the list itself without client or when the
\* select raises, else the horses whose id the store does not hold
FilterExistingHorses(horse_list, supabase, existing_ids) ==
    IF supabase # "client" THEN horse_list
    ELSE SelectSeq(horse_list, LAMBDA horse_id : horse_id \notin existing_ids)
\* run_batch_collection: the horses passed to detail_scraper.scrape
RunBatchCollection(horse_list, skip_existing, supabase, existing_ids) ==
    IF horse_list = <<>> THEN [passed |-> <<>>]
    ELSE IF skip_existing
    THEN [passed |-> FilterExistingHorses(horse_list, supabase, existing_ids)]
    ELSE [passed |-> horse_list]

\* supabase is "client" (the select answers), "raises" (the select raises) or
\* "none" (no client was created: there is no store)
InitU20 ==
    /\ \/ \E race_list \in RaceLists, skip_existing \in BOOLEAN,
             persisted \in SUBSET {"R1", "R2"}, fetchable \in SUBSET {"R1", "R2"} :
             u_call = [fn |-> "scrape_and_store_races", race_list |-> race_list,
                       skip_existing |-> skip_existing, persisted |-> persisted,
                       fetchable |-> fetchable]
       \/ \E horse_list \in HorseLists, skip_existing \in BOOLEAN,
             supabase \in {"client", "raises", "none"},
             existing_ids \in SUBSET {"H1", "H2", "H3"} :
             /\ supabase = "none" => existing_ids = {}
             /\ u_call = [fn |-> "run_batch_collection", horse_list |-> horse_list,
                          skip_existing |-> skip_existing, supabase |-> supabase,
                          persisted |-> existing_ids]
    /\ u_result = Pending
ScrapeAndStoreRacesStep ==
    /\ u_call.fn = "scrape_and_store_races"
    /\ u_result = Pending
    /\ u_result' = Returned(ScrapeAndStoreRaces(u_call.race_list, u_call.skip_existing,
                                                u_call.persisted, u_call.fetchable))
    /\ UNCHANGED u_call
    /\ UNCHANGED restU
RunBatchCollectionStep ==
    /\ u_call.fn = "run_batch_collection"
    /\ u_result = Pending
    /\ u_result' = Returned(RunBatchCollection(u_call.horse_list, u_call.skip_existing,
                                               u_call.supabase, u_call.persisted))
    /\ UNCHANGED u_call
    /\ UNCHANGED restU

(***************************************************************************)
(* Table lookup of the horse extractors (basic_info_extractor.py,          *)
(* pedigree_extractor.py).  A parsed document is the sequence of its table *)
(* tags in document order; a table carries its summary attribute and the   *)
(* set of its css classes.  A found table is named by its position in the  *)
(* document, NoTable is the None of a lookup that found nothing.           *)
(***************************************************************************)
NoTable == 0

HtmlTable(summary, classes) == [summary |-> summary, classes |-> classes]

\* soup.find('table', summary=value) compares the whole attribute,
\* soup.find('table', class_=value) one css class of the tag.
TableMatches(tag, locator) ==
  IF locator.attr = "summary" THEN tag.summary = locator.value
  ELSE locator.value \in tag.classes

\* soup.find('table', ...): the first matching table in document order.
SoupFind(soup, locator) ==
  LET hits == {i \in 1..Len(soup) : TableMatches(soup[i], locator)}
  IN IF hits = {} THEN NoTable ELSE CHOOSE i \in hits : \A j \in hits : i <= j

\* The summaries are the romanised "no purofiiru" ("...'s profile"),
\* "purofiiru" and "godai kettouhyou" (five-generation pedigree).
table_patterns ==
  << [attr |-> "summary", value |-> "no_purofiiru"],
     [attr |-> "summary", value |-> "purofiiru"],
     [attr |-> "class", value |-> "db_prof_table"],
     [attr |-> "class", value |-> "horse_info"],
     [attr |-> "class", value |-> "prof_table"],
     [attr |-> "class", value |-> "horse_prof"] >>

table_candidates ==
  << [attr |-> "class", value |-> "blood_table_detail"],
     [attr |-> "summary", value |-> "godai_kettouhyou"],
     [attr |-> "class", value |-> "blood_table"] >>

\* A lookup that ignores the order of the locators: the first table of the
\* document that any locator matches.
FirstMatch_DocumentOrder(soup, locators) ==
  LET hits == {i \in 1..Len(soup) :
                 \E k \in 1..Len(locators) : TableMatches(soup[i], locators[k])}
  IN IF hits = {} THEN NoTable ELSE CHOOSE i \in hits : \A j \in hits : i <= j

\* for ... in locators: table = soup.find(...); if table: return table
RECURSIVE FirstMatch(_, _)
FirstMatch(soup, locators) ==
  IF locators = <<>> THEN NoTable
  ELSE LET found == SoupFind(soup, Head(locators))
       IN IF found # NoTable THEN found ELSE FirstMatch(soup, Tail(locators))

FindProfileTable(soup) == FirstMatch(soup, table_patterns)

FindPedigreeTable(soup) == FirstMatch(soup, table_candidates)

MaxTables == 2

TableTags ==
  {HtmlTable(s, {}) : s \in {"", "no_purofiiru", "purofiiru", "godai_kettouhyou"}}
  \cup {HtmlTable("", {c}) : c \in {"db_prof_table", "horse_info", "prof_table",
                                    "horse_prof", "blood_table_detail",
                                    "blood_table", "nk_tb_common"}}
  \cup {HtmlTable("purofiiru", {"db_prof_table"}),
        HtmlTable("", {"horse_prof", "horse_info"}),
        HtmlTable("godai_kettouhyou", {"blood_table"})}

Soups == UNION {[1..n -> TableTags] : n \in 0..MaxTables}

InitU21 ==
  /\ u_call \in {[fn |-> f, soup |-> s] :
                   f \in {"find_profile_table", "find_pedigree_table"}, s \in Soups}
  /\ u_result = Pending

FindProfileTableStep ==
  /\ u_call.fn = "find_profile_table"
  /\ u_result = Pending
  /\ u_result' = Returned(FindProfileTable(u_call.soup))
  /\ UNCHANGED u_call
  /\ UNCHANGED restU

FindPedigreeTableStep ==
  /\ u_call.fn = "find_pedigree_table"
  /\ u_result = Pending
  /\ u_result' = Returned(FindPedigreeTable(u_call.soup))
  /\ UNCHANGED u_call
  /\ UNCHANGED restU

(***************************************************************************)
(* scrape_and_store_races entry by entry (race_scraper.py): for every      *)
(* entry of the list the answers of the store and of the site are given,   *)
(* and the trace tells which counter the entry moved, which calls were     *)
(* made for it and where an exception caught by the loop was raised.       *)
(* Errors of the fetch are caught in scrape_race_detail (it returns None), *)
(* errors of the store in the RaceStorage methods (they return False).     *)
(***************************************************************************)
\* the counter the entry moved
CounterOf(outcome) ==
    LET before == NewStats(<<>>)
        after == Tally(before, outcome)
    IN  CHOOSE name \in {"success", "skipped", "failed"} : after[name] = before[name] + 1

\* race, results = race_data
RaisedIn(outcome) == IF outcome = "exception" THEN "unpack" ELSE "none"

EntryTrace(race_id, skip_existing, answer) ==
    LET outcome == RaceOutcome(race_id, skip_existing, answer.stored,
                               answer.detail_ok, answer.accepted)
    IN  [counted |-> CounterOf(outcome),
         detail_called |-> outcome \notin {"missing_race_id", "skipped"},
         insert_called |-> outcome \in {"success", "insert_failed"},
         insert_returned |-> outcome = "success",
         raised_in |-> RaisedIn(outcome)]

ScrapeAndStoreEntries(race_list, skip_existing, answers) ==
    LET outcomes == [i \in 1..Len(race_list) |->
                        RaceOutcome(race_list[i], skip_existing, answers[i].stored,
                                    answers[i].detail_ok, answers[i].accepted)]
    IN  [stats |-> TallyAll(NewStats(race_list), outcomes),
         trace |-> [i \in 1..Len(race_list) |->
                        EntryTrace(race_list[i], skip_existing, answers[i])]]

MaxEntries == 2

\* stored: the races table holds the race; detail_ok: the page is fetched
\* and extract_race_detail returns data; accepted: the store would take the
\* rows
Answers == [stored : BOOLEAN, detail_ok : BOOLEAN, accepted : BOOLEAN]

InitU22 ==
    /\ \E race_list \in SeqsUpTo(RaceInfoIds, MaxEntries), skip_existing \in BOOLEAN :
         \E answers \in [1..Len(race_list) -> Answers] :
             u_call = [fn |-> "scrape_and_store_races", race_list |-> race_list,
                       skip_existing |-> skip_existing, answers |-> answers]
    /\ u_result = Pending

ScrapeAndStoreEntriesStep ==
    /\ u_call.fn = "scrape_and_store_races"
    /\ u_result = Pending
    /\ u_result' = Returned(ScrapeAndStoreEntries(u_call.race_list, u_call.skip_existing,
                                                  u_call.answers))
    /\ UNCHANGED u_call
    /\ UNCHANGED restU

(***************************************************************************)
(* The starters of one result table (race_detail_extractor.py): rows of 15 *)
(* cells that differ in the horse-number cell and in the horse cell (its   *)
(* text and its link).                                                     *)
(***************************************************************************)
MaxStarters == 2

\* the link of the horse cell: none, one whose href has no /horse/<id>, or
\* one to the page of a horse
HorseLinks(name) ==
    {NoLink, Link(name, <<"javascript:void(0)">>),
     Link(name, <<"horse", "H1">>), Link(name, <<"horse", "H2">>)}

StarterRows ==
    {[RowCells(15, TRUE, FALSE) EXCEPT ![3] = Cell(number_text, NoLink),
                                       ![4] = Cell(name, link)] :
        number_text \in {<<>>, <<"x">>, <<"5">>, <<"7">>},
        name \in {<<"D">>, <<"E">>},
        link \in HorseLinks(<<"D">>) \cup HorseLinks(<<"E">>)}

InitU23 ==
    /\ \E starters \in SeqsUpTo(StarterRows, MaxStarters) :
          u_call = [fn |-> "_extract_race_results",
                    page |-> [result_table |-> TRUE, rows |-> <<HeaderRow>> \o starters],
                    race_id |-> "202408070411"]
    /\ u_result = Pending

ExtractRaceResultsStep ==
    /\ u_call.fn = "_extract_race_results"
    /\ u_result = Pending
    /\ u_result' = Returned(ExtractRaceResults(u_call.page, u_call.race_id))
    /\ UNCHANGED u_call
    /\ UNCHANGED restU

(***************************************************************************)
(* _extract_payout_row on rows whose three cells split into lists of       *)
(* different lengths (race_detail_extractor.py).  The i-th line of the     *)
(* combination cell is written with a full-width digit and '->'.           *)
(***************************************************************************)
MaxLines == 3

CombinationLine(i) == <<"fw1", "-", ">", DigitChar(i)>>

AmountLines == {<<"1", "0", "0">>, <<"2", ",", "5", "0", "0">>, <<"0">>, <<"x">>}

PopularityLines == {<<"1">>, <<"x">>}

PayoutRows ==
    {[cell_count |-> cell_count, bet_text |-> <<"fukusho">>, css_classes |-> <<>>,
      combinations |-> [i \in 1..line_count |-> CombinationLine(i)],
      payout_amounts |-> payout_amounts, popularities |-> popularities] :
        cell_count \in {3, 4}, line_count \in 0..MaxLines,
        payout_amounts \in SeqsUpTo(AmountLines, MaxLines),
        popularities \in SeqsUpTo(PopularityLines, MaxLines - 1)}

InitU24 ==
    /\ \E row \in PayoutRows :
          u_call = [fn |-> "_extract_payout_row", row |-> row,
                    race_id |-> "202408070411"]
    /\ u_result = Pending

ExtractPayoutRowStep ==
    /\ u_call.fn = "_extract_payout_row"
    /\ u_result = Pending
    /\ u_result' = Returned(ExtractPayoutRow(u_call.row, u_call.race_id))
    /\ UNCHANGED u_call
    /\ UNCHANGED restU

(***************************************************************************)
(* HorseScraper.scrape with the answers of the store (horse_scraper.py,    *)
(* supabase_storage.py).  supabase is "client" when SupabaseStorage has a  *)
(* client and "none" when the environment names no store; horse_saved      *)
(* tells whether the upsert of the horses row went through.  The call      *)
(* records the direct relations it read from the pedigree page.            *)
(***************************************************************************)
\* create_mating_relations, line 169 with one parent being enough (mutant)
MatingWanted_EitherParent(sire_id, dam_id, supabase) ==
    (sire_id # None \/ dam_id # None) /\ supabase = "client"

\* create_mating_relations, line 169: if sire_id and dam_id and storage.supabase
MatingWanted(sire_id, dam_id, supabase) ==
    sire_id # None /\ dam_id # None /\ supabase = "client"

\* create_mating_relations: the table after it and the relations it returns,
\* when the edge found is row id (0: none found)
CreateMatingRelations(tbl, sire_id, dam_id, h, supabase, id) ==
    IF ~MatingWanted(sire_id, dam_id, supabase)
    THEN [table |-> tbl, mating_relations |-> <<>>]
    ELSE IF id # 0
    THEN LET updated == AddChildToMating(tbl, id, h)
         IN  [table |-> updated, mating_relations |-> <<updated[id]>>]
    ELSE [table |-> tbl,
          mating_relations |-> <<Row(sire_id, dam_id, "mating", <<h>>)>>]

\* save_horse_data: False without client or when the upsert raises
SaveHorseData(supabase, horse_saved) == supabase = "client" /\ horse_saved

\* save_all: both saves are made, whatever the first returns
SaveAll(tbl, relations, supabase, horse_saved) ==
    [table |-> IF supabase = "client" /\ relations # <<>>
               THEN SaveRelations(tbl, relations) ELSE tbl,
     success |-> /\ SaveHorseData(supabase, horse_saved)
                 /\ (relations # <<>> => supabase = "client")]

\* Number of scrape calls explored with the answers of the store.
MaxSaves == 2

ScrapeAndSave(h, sire, dam, bms, supabase, horse_saved) ==
    /\ scrapes < MaxSaves
    /\ LET relations == DirectRelations(h, sire, dam, bms)
           sire_id == PedigreeId(relations, h, "sire_of")
           dam_id == PedigreeId(relations, h, "dam_of")
           found == IF MatingWanted(sire_id, dam_id, supabase)
                    THEN FindExistingMating(horse_relations, sire_id, dam_id)
                    ELSE {}
       IN
       \E id \in (IF found = {} THEN {0} ELSE found) :
          LET mating == CreateMatingRelations(horse_relations, sire_id, dam_id, h,
                                              supabase, id)
              saved == SaveAll(mating.table, relations \o mating.mating_relations,
                               supabase, horse_saved)
          IN  /\ horse_relations' = saved.table
              /\ horses' = IF SaveHorseData(supabase, horse_saved)
                           THEN horses \cup {h} ELSE horses
              /\ scrapes' = scrapes + 1
              /\ last_scrape' = [horse |-> h, sire |-> sire_id, dam |-> dam_id,
                                 branch |-> MatingBranch(horse_relations, found, id, h,
                                                         sire_id, dam_id),
                                 success |-> saved.success,
                                 direct |-> relations, supabase |-> supabase,
                                 horse_saved |-> SaveHorseData(supabase, horse_saved)]

ScrapeAndSaveStep ==
    /\ \E h \in KidIds, sire \in ParentIds \cup {None}, dam \in ParentIds \cup {None},
          supabase \in {"client", "none"}, horse_saved \in BOOLEAN :
          \E bms \in BmsOf(dam) : ScrapeAndSave(h, sire, dam, bms, supabase, horse_saved)
    /\ UNCHANGED restM

(***************************************************************************)
(* extract_race_detail on pages whose result rows differ in length and in  *)
(* the text of the time cell (race_detail_extractor.py).                   *)
(***************************************************************************)
MaxTableRows == 3

TimedRow(cell_count, time) ==
    [i \in 1..cell_count |->
        IF i = 8 THEN Cell(time, NoLink) ELSE CellAt(i, TRUE, TRUE)]

TimedRows ==
    {TimedRow(7, <<>>),
     TimedRow(8, <<"1", ":", "3", "3", ".", "5">>),
     TimedRow(15, <<" ", "1", ":", "3", "3", ".", "5", " ">>),
     TimedRow(15, <<"1", ":", "3", "4", ".", "0">>),
     TimedRow(21, <<>>)}

TimedPages ==
    {[race_data |-> TRUE, heading |-> TRUE, race_name |-> <<"G", "1">>,
      race_number |-> Int1(11), distance |-> Int1(2000),
      result_table |-> result_table, rows |-> rows,
      pay_block |-> FALSE, pay_rows |-> <<>>] :
        result_table \in BOOLEAN,
        rows \in {<<>>} \cup {<<HeaderRow>> \o data_rows :
                                 data_rows \in SeqsUpTo(TimedRows, MaxTableRows)}}

InitU27 ==
    /\ \E page \in TimedPages :
          /\ (~page.result_table => page.rows = <<>>)
          /\ u_call = [fn |-> "extract_race_detail", page |-> page,
                       race_id |-> "202408070411"]
    /\ u_result = Pending

(***************************************************************************)
(* Specifications                                                          *)
(***************************************************************************)
Next ==
    \/ ScrapeFailsStep
    \/ ScrapeStep

NextConc ==
    \/ Find1Step
    \/ Find2Step
    \/ AddStep
    \/ CheckStep
    \/ InsertStep

Init == InitM /\ IdleK /\ IdleS /\ IdleB /\ IdleL /\ IdleH /\ IdleP /\ IdleF /\ IdleU
InitConc == InitM /\ InitK /\ IdleS /\ IdleB /\ IdleL /\ IdleH /\ IdleP /\ IdleF /\ IdleU

Spec == Init /\ [][Next]_vars
SpecConc == InitConc /\ [][NextConc]_vars

NextBatch ==
    \/ RaceEntryStep
    \/ RaceReturnStep
    \/ HorseEntryStep
    \/ HorseReturnStep
InitBatch == InitM /\ IdleK /\ IdleS /\ InitB /\ IdleL /\ IdleH /\ IdleP /\ IdleF /\ IdleU
SpecBatch == InitBatch /\ [][NextBatch]_vars

NextRaceList ==
    \/ ListPageStep
    \/ ListPageRaisesStep
    \/ ListReturnStep
InitRaceList == InitM /\ IdleK /\ IdleS /\ IdleB /\ InitL /\ IdleH /\ IdleP /\ IdleF /\ IdleU
\* the call runs to its return: every fetch answers or raises (timeout=30)
SpecRaceList == InitRaceList /\ [][NextRaceList]_vars /\ WF_vars(NextRaceList)

NextCollect ==
    \/ CollectBatchStep
    \/ CollectReturnStep
InitCollect == InitM /\ IdleK /\ IdleS /\ IdleB /\ IdleL /\ InitH /\ IdleP /\ IdleF /\ IdleU
SpecCollect == InitCollect /\ [][NextCollect]_vars

NextPersonList ==
    \/ PersonPageStep
    \/ PersonReturnStep
InitPersonList == InitM /\ IdleK /\ IdleS /\ IdleB /\ IdleL /\ IdleH /\ InitP /\ IdleF /\ IdleU
\* the call runs to its return: _scrape_page answers with rows or with []
SpecPersonList == InitPersonList /\ [][NextPersonList]_vars /\ WF_vars(NextPersonList)

NextFetch ==
    \/ FetchEntryStep
    \/ FetchSendStep
    \/ FetchAnswerStep
    \/ FetchSleepStep
InitFetch == InitM /\ IdleK /\ IdleS /\ IdleB /\ IdleL /\ IdleH /\ IdleP /\ InitF /\ IdleU
SpecFetch == InitFetch /\ [][NextFetch]_vars

NextPayoutFormat == ValidateRacePayoutStep
InitPayoutFormat == InitM /\ IdleK /\ IdleS /\ IdleB /\ IdleL /\ IdleH /\ IdleP /\ IdleF /\ InitU14
SpecPayoutFormat == InitPayoutFormat /\ [][NextPayoutFormat]_vars

NextDetail == ScrapeRaceDetailStep
InitDetail == InitM /\ IdleK /\ IdleS /\ IdleB /\ IdleL /\ IdleH /\ IdleP /\ IdleF /\ InitU13
SpecDetail == InitDetail /\ [][NextDetail]_vars

NextConsistency == ValidatePayoutConsistencyStep
InitConsistency == InitM /\ IdleK /\ IdleS /\ IdleB /\ IdleL /\ IdleH /\ IdleP /\ IdleF /\ InitU15
SpecConsistency == InitConsistency /\ [][NextConsistency]_vars

NextPrize == ParsePrizeStep
InitPrize == InitM /\ IdleK /\ IdleS /\ IdleB /\ IdleL /\ IdleH /\ IdleP /\ IdleF /\ InitU16
SpecPrize == InitPrize /\ [][NextPrize]_vars

NextRates == UpdateStatsStep \/ CalculateRatesStep
InitRates == InitM /\ IdleK /\ IdleS /\ IdleB /\ IdleL /\ IdleH /\ IdleP /\ IdleF /\ InitU17
SpecRates == InitRates /\ [][NextRates]_vars

NextResultRow == ExtractRaceResultRowStep
InitResultRow == InitM /\ IdleK /\ IdleS /\ IdleB /\ IdleL /\ IdleH /\ IdleP /\ IdleF /\ InitU18
SpecResultRow == InitResultRow /\ [][NextResultRow]_vars

NextPage == ExtractRaceDetailStep
InitPage == InitM /\ IdleK /\ IdleS /\ IdleB /\ IdleL /\ IdleH /\ IdleP /\ IdleF /\ InitU19
SpecPage == InitPage /\ [][NextPage]_vars

NextSkip == ScrapeAndStoreRacesStep \/ RunBatchCollectionStep
InitSkip == InitM /\ IdleK /\ IdleS /\ IdleB /\ IdleL /\ IdleH /\ IdleP /\ IdleF /\ InitU20
SpecSkip == InitSkip /\ [][NextSkip]_vars

NextTable == FindProfileTableStep \/ FindPedigreeTableStep

InitTable == InitM /\ IdleK /\ IdleS /\ IdleB /\ IdleL /\ IdleH /\ IdleP /\ IdleF /\ InitU21

SpecTable == InitTable /\ [][NextTable]_vars

NextTally == ScrapeAndStoreEntriesStep

InitTally == InitM /\ IdleK /\ IdleS /\ IdleB /\ IdleL /\ IdleH /\ IdleP /\ IdleF /\ InitU22

SpecTally == InitTally /\ [][NextTally]_vars

NextStarters == ExtractRaceResultsStep

InitStarters == InitM /\ IdleK /\ IdleS /\ IdleB /\ IdleL /\ IdleH /\ IdleP /\ IdleF /\ InitU23

SpecStarters == InitStarters /\ [][NextStarters]_vars

NextPayoutRow == ExtractPayoutRowStep

InitPayoutRow == InitM /\ IdleK /\ IdleS /\ IdleB /\ IdleL /\ IdleH /\ IdleP /\ IdleF /\ InitU24

SpecPayoutRow == InitPayoutRow /\ [][NextPayoutRow]_vars

NextResolve == ScrapeAndSaveStep

InitResolve == InitM /\ IdleK /\ IdleS /\ IdleB /\ IdleL /\ IdleH /\ IdleP /\ IdleF /\ IdleU

SpecResolve == InitResolve /\ [][NextResolve]_vars

NextTimes == ExtractRaceDetailStep

InitTimes == InitM /\ IdleK /\ IdleS /\ IdleB /\ IdleL /\ IdleH /\ IdleP /\ IdleF /\ InitU27

SpecTimes == InitTimes /\ [][NextTimes]_vars

NextStore ==
    \/ InsertRaceStep
    \/ InsertRaceResultsStep
    \/ InsertRacePayoutsStep
    \/ InsertHorseRelationsStep
    \/ SaveRelationsStep
InitStore == InitM /\ IdleK /\ IdleS /\ IdleB /\ IdleL /\ IdleH /\ IdleP /\ IdleF /\ IdleU
SpecStore == InitStore /\ [][NextStore]_vars

NextComplete ==
    \/ InsertRaceStep
    \/ InsertCompleteRaceDataStep
    \/ RsInsertCompleteRaceDataStep
InitComplete == InitM /\ IdleK /\ IdleS /\ IdleB /\ IdleL /\ IdleH /\ IdleP /\ IdleF /\ IdleU
SpecComplete == InitComplete /\ [][NextComplete]_vars


(***************************************************************************)
(* Claims about the sequential scrape (specification Spec).                *)
(***************************************************************************)
\* ids of the mating rows of the unordered pair {a, b}
PairMating(tbl, a, b) ==
    {i \in 1..Len(tbl) : /\ tbl[i].relation_type = "mating"
                         /\ {tbl[i].horse_a_id, tbl[i].horse_b_id} = {a, b}}

MatingRows(tbl) == {i \in 1..Len(tbl) : tbl[i].relation_type = "mating"}

\* the latest step was a completed scrape of horse y resolving to sire a, dam b
ScrapedStep(y, a, b) ==
    /\ scrapes' = scrapes + 1
    /\ last_scrape'.horse = y /\ last_scrape'.sire = a /\ last_scrape'.dam = b
    /\ last_scrape'.success

C3_ChildrenGrowOnly ==
    [][\A i \in 1..Len(horse_relations) :
         /\ i <= Len(horse_relations')
         /\ horse_relations'[i].horse_a_id = horse_relations[i].horse_a_id
         /\ horse_relations'[i].horse_b_id = horse_relations[i].horse_b_id
         /\ horse_relations'[i].relation_type = horse_relations[i].relation_type
         /\ SeqToSet(horse_relations[i].children_ids)
              \subseteq SeqToSet(horse_relations'[i].children_ids)
      ]_vars

\* C3 witness: an edge that already had a child received a second one.
C3_Witness ==
    /\ last_scrape.branch = "added"
    /\ \E i \in MatingRows(horse_relations) :
          Len(horse_relations[i].children_ids) = 2

(***************************************************************************)
(* Claims about interleaved scrapes (specification SpecConc).              *)
(***************************************************************************)
BothDone == \A p \in Runs : c_proc[p].pc = "done"

\* the pair has exactly one mating row and it lists both runs' horses
MergedEdge ==
    /\ Cardinality(PairMating(c_relations, RunSire, RunDam)) = 1
    /\ \A i \in PairMating(c_relations, RunSire, RunDam) :
          {RunHorse(p) : p \in Runs} \subseteq SeqToSet(c_relations[i].children_ids)

DuplicateEdge == Cardinality(PairMating(c_relations, RunSire, RunDam)) > 1

LostChild ==
    \E p \in Runs : \A i \in PairMating(c_relations, RunSire, RunDam) :
        RunHorse(p) \notin SeqToSet(c_relations[i].children_ids)

C4_LostUpdate == BothDone /\ c_overlap /\ ~DuplicateEdge /\ LostChild

(***************************************************************************)
(* Claims about the storage calls (specifications SpecStore, SpecComplete).*)
(***************************************************************************)
\* a storage call returned in this step
Called(op) == pg_clock' = pg_clock + 1 /\ pg_last'.op = op

\* this step repeats the call before it, and both returned True
StoredTwice ==
    /\ pg_clock' = pg_clock + 1
    /\ pg_last'.op \in {"insert_race", "insert_race_results", "insert_race_payouts",
                        "insert_horse_relations", "save_relations"}
    /\ pg_last'.again
    /\ pg_last'.ok

WithoutUpdatedAt(tbl) == {[r EXCEPT !.updated_at = NoTime] : r \in tbl}

\* no two rows of one table carry the same identity key
OneRowPerKey(db, relations) ==
    /\ \A r, q \in db.races : r.race_id = q.race_id => r = q
    /\ \A r, q \in db.race_results :
          (r.race_id = q.race_id /\ r.horse_id = q.horse_id) => r = q
    /\ \A r, q \in db.race_payouts :
          (r.race_id = q.race_id /\ r.bet_type = q.bet_type
             /\ r.combination = q.combination) => r = q
    /\ \A t \in {db.horse_relations, relations} : \A i, j \in 1..Len(t) :
          (t[i].horse_a_id = t[j].horse_a_id /\ t[i].horse_b_id = t[j].horse_b_id
             /\ t[i].relation_type = t[j].relation_type) => i = j

StoredAsScraped(db, race) ==
    \E r \in db.races : /\ r.race_id = race.race_id
                        /\ r.race_name = race.race_name
                        /\ r.distance = race.distance.value

\* C6: re-storing a race whose race_id is already persisted updates all
\* mutable fields, on both paths: after a successful insert_race or
\* insert_complete_race_data of a stored race_id the row carries the newly
\* scraped values (race_name standing for the like-treated columns, distance).
C6_RestoreUpdatesAll ==
    [][(/\ Called("insert_race") \/ Called("insert_complete_race_data")
        /\ pg_last'.ok
        /\ \E r \in pg_db.races : r.race_id = pg_last'.race.race_id)
       => StoredAsScraped(pg_db', pg_last'.race)]_vars

\* the rows of the call's race and results are all in the tables
AllVisible(races, race_results, call) ==
    /\ \E r \in races : r.race_id = call.race.race_id
    /\ \A k \in 1..Len(call.results) : \E r \in race_results :
          /\ r.race_id = call.results[k].race_id
          /\ r.horse_id = call.results[k].horse_id
          /\ r.finish_position = call.results[k].finish_position

C8_EveryItemTallied ==
    /\ rb.visited = SubSeq(rb.race_list, 1, rb.i)
    /\ rb.stats.success + rb.stats.skipped + rb.stats.failed = rb.i
    /\ rb.stats.total = Len(rb.race_list)
    /\ rb.pc = "done" => rb.i = Len(rb.race_list)
    /\ \A k \in 1..hb.i :
          (hb.horse_list[k] \in SeqToSet(hb.success))
              # (hb.horse_list[k] \in SeqToSet(hb.failed))
    /\ SeqToSet(hb.success) \cup SeqToSet(hb.failed)
          = {hb.horse_list[k] : k \in 1..hb.i}
    /\ hb.total_processed = Len(hb.success) + Len(hb.failed)
    /\ hb.total_processed = hb.i
    /\ hb.pc = "done" => hb.i = Len(hb.horse_list)

\* C8 witness: scrape_and_store_races returned from a list of three entries,
\* one of them without race_id, one whose processing raised; all three were
\* counted.
C8_Witness ==
    /\ rb.pc = "done"
    /\ rb.race_list = <<"R1", None, "R2">>
    /\ rb.slept = 2
    /\ rb.stats.success + rb.stats.skipped + rb.stats.failed = 3

(***************************************************************************)
(* Claims about the race list pages (specification SpecRaceList).          *)
(***************************************************************************)
\* C9: scrape_race_list_by_conditions terminates for every behaviour of the
\* list source: it makes at most limit fetches, each pass ends the loop or
\* adds a race, and the call eventually returns; the returned list never
\* has more than limit entries; when a fetch raises, the races collected so
\* far are returned.
C9_ListTerminatesWithinLimit ==
    /\ [](/\ rl.fetches <= rl.limit
          /\ Len(rl.all_races) >= rl.fetches - 1
          /\ rl.pc = "returned" => /\ Len(rl.returned) <= rl.limit
                                   /\ rl.returned = rl.all_races)
    /\ <>(rl.pc = "returned")

\* C9 witness: two pages were collected, the third fetch raised, and the
\* races of the two pages were returned.
C9_Witness ==
    /\ rl.pc = "returned"
    /\ rl.raised
    /\ rl.fetches = 3
    /\ Len(rl.returned) >= 2

(***************************************************************************)
(* Claims about the horse list batches (specification SpecCollect).        *)
(***************************************************************************)
\* C10: _collect_horse_list terminates for every behaviour of the list
\* source: the loop stops when a batch brings zero new horses or when the
\* accumulated count reaches total_target.  Stated on the loop: after a
\* batch that brought no new horse the loop is over.
C10_StopsWithoutNewHorses ==
    (ch.batches > 0 /\ ch.last_new = 0) => ch.pc = "done"

(***************************************************************************)
(* Claims about the person list pages (specification SpecPersonList).      *)
(***************************************************************************)
\* C11: scrape_trainers, scrape_owners, scrape_breeders and scrape_jockeys
\* terminate for every behaviour of the list source and return at most limit
\* entities: every pass of the loop ends it or lowers remaining by at least
\* one, no more than remaining entities are taken from a page (remaining
\* never goes below 0, the list holds limit - remaining entities), and the
\* call eventually returns.
C11_PersonListTerminates ==
    /\ [](/\ pl.remaining >= 0
          /\ Len(pl.entities) = pl.limit - pl.remaining
          /\ Len(pl.entities) <= pl.limit
          /\ pl.fetches <= pl.limit)
    /\ [][(pl'.fetches = pl.fetches + 1)
            => (pl'.pc = "returned" \/ pl'.remaining < pl.remaining)]_vars
    /\ <>(pl.pc = "returned")

\* C11 witness: scrape_owners(limit = 4) returned four owners after three
\* pages, the last page cut to the one owner still wanted.
C11_Witness ==
    /\ pl.pc = "returned"
    /\ pl.kind = "owner"
    /\ pl.limit = 4
    /\ pl.remaining = 0
    /\ pl.fetches = 3

(***************************************************************************)
(* Claims about fetches and sleeps (specification SpecFetch).              *)
(***************************************************************************)
\* C12: execution is strictly sequential with a delay between consecutive
\* fetches: at most one fetch is in flight, and whenever a request is sent,
\* a sleep has happened since the previous request was answered (or there
\* was no previous request).
C12_DelayBetweenFetches ==
    [][/\ fx'.inflight <= 1
       /\ fx'.inflight > fx.inflight => fx.last # "fetch"]_vars

\* the part of C12 that holds: never more than one fetch in flight
C12_OneFetchInFlight == fx.inflight <= 1


(***************************************************************************)
(* Claims about the payout validators (SpecPayoutFormat, SpecConsistency). *)
(***************************************************************************)
CombinationTags ==
    {"combination is required", "combination cannot be empty",
     "combination contains invalid characters", "combination format",
     "out of valid range"}
CombinationViolations(errors) ==
    SelectSeq(errors, LAMBDA e : e.error \in CombinationTags)
\* the words of a combination: "N" for a number, the other characters as
\* they are, whitespace left out
RECURSIVE Words(_)
Words(text) ==
    IF text = <<>> THEN <<>>
    ELSE IF Head(text) \in Spaces THEN Words(Tail(text))
    ELSE IF Head(text) \in Digits
    THEN <<"N">> \o Words(SubSeq(text, SkipWhile(text, 1, Digits), Len(text)))
    ELSE <<Head(text)>> \o Words(Tail(text))
RequiredShape(bet_type) ==
    CASE bet_type \in {"tansho", "fukusho"} -> <<"N">>
      [] bet_type \in {"wakuren", "umaren", "wide"} -> <<"N", "-", "N">>
      [] bet_type \in {"wakutan", "umatan"} -> <<"N", Arrow, "N">>
      [] bet_type = "sanrenpuku" -> <<"N", "-", "N", "-", "N">>
      [] bet_type = "sanrentan" -> <<"N", Arrow, "N", Arrow, "N">>
CombinationAccepted(bet_type, combination) ==
    CombinationViolations(ValidateRacePayout(
        RacePayout("202408070411", bet_type, combination, Int1(100), NoInt))) = <<>>

\* the five combinations the specification names
PayoutExamples ==
    /\ CombinationAccepted("tansho", <<"7">>)
    /\ ~CombinationAccepted("tansho", <<"7", "-", "3">>)
    /\ CombinationAccepted("sanrentan",
           <<"1", " ", Arrow, " ", "2", " ", Arrow, " ", "3">>)
    /\ ~CombinationAccepted("sanrentan", <<"1", "-", "2", "-", "3">>)
    /\ ~CombinationAccepted("sanrentan",
           <<"1", "9", " ", Arrow, " ", "2", " ", Arrow, " ", "3">>)

\* C14: for each of the nine bet types validate_race_payout reports no
\* combination violation exactly when the combination is non-empty, has the
\* shape of its bet type (one number; N - M; N -> M; N - M - P; N -> M -> P)
\* and every number in it lies in 1..18.  For tansho "7" is valid and "7-3"
\* is not; for sanrentan "1 -> 2 -> 3" is valid, "1-2-3" and "19 -> 2 -> 3"
\* are not.
C14_CombinationGrammar ==
    /\ (u_call.fn = "validate_race_payout" /\ u_result.done) =>
         LET combination == u_call.payout.combination
             numbers == FindNumbers(combination, 1)
         IN  (CombinationViolations(u_result.value) = <<>>)
             <=> /\ combination # <<>>
                 /\ Words(combination) = RequiredShape(u_call.payout.bet_type)
                 /\ \A i \in 1..Len(numbers) : numbers[i] \in 1..18
    /\ PayoutExamples
C14_Witness ==
    /\ u_call.fn = "validate_race_payout"
    /\ u_call.payout.bet_type = "sanrentan"
    /\ u_call.payout.combination = <<"1", Arrow, "9", Arrow, "1">>
    /\ u_result = Returned(<<>>)


\* C13: validation warns and never rejects.  For every extracted (race,
\* results, payouts) triple scrape_race_detail returns that triple unchanged,
\* whatever the four validators report.
C13_ValidationNeverRejects ==
    (/\ u_call.fn = "scrape_race_detail" /\ u_result.done
     /\ u_call.fetched /\ u_call.race_data # NoDetail)
    => u_result.value.value = u_call.race_data
C13_Witness ==
    /\ u_call.fn = "scrape_race_detail" /\ u_result.done
    /\ u_call.fetched /\ u_call.race_data # NoDetail
    /\ \E i \in 1..Len(u_result.value.warnings) :
          u_result.value.warnings[i].error = "Duplicate payout"
    /\ \E i \in 1..Len(u_result.value.warnings) :
          u_result.value.warnings[i].error = "race_id must be 12 characters"
    /\ u_result.value.value = u_call.race_data

PayoutKeys(payouts) == {PayoutKey(payouts[i]) : i \in 1..Len(payouts)}
ErrorCount(errors, tag) ==
    Cardinality({i \in 1..Len(errors) : errors[i].error = tag})
\* C15: validate_payout_consistency returns an empty list exactly when all
\* payouts share one race_id, no (bet_type, combination) pair occurs twice and
\* both tansho and fukusho are present; it reports one violation for mixed
\* race_ids, one per repeated occurrence of a pair, and one warning when
\* tansho or fukusho is absent.
C15_PayoutConsistency ==
    (u_call.fn = "validate_payout_consistency" /\ u_result.done) =>
      LET payouts == u_call.payouts
          errors == u_result.value
          mixed == \E i, j \in 1..Len(payouts) :
                      payouts[i].race_id # payouts[j].race_id
          repeated == Len(payouts) - Cardinality(PayoutKeys(payouts))
          absent == \E bet_type \in {"tansho", "fukusho"} :
                       \A i \in 1..Len(payouts) : payouts[i].bet_type # bet_type
      IN  /\ (errors = <<>>) <=> (~mixed /\ repeated = 0 /\ ~absent)
          /\ ErrorCount(errors, "Mixed race_ids") = (IF mixed THEN 1 ELSE 0)
          /\ ErrorCount(errors, "Duplicate payout") = repeated
          /\ ErrorCount(errors, "Warning: Missing basic bet types")
               = (IF absent THEN 1 ELSE 0)
          /\ Len(errors) = (IF mixed THEN 1 ELSE 0) + repeated
                           + (IF absent THEN 1 ELSE 0)
C15_Witness ==
    /\ u_call.fn = "validate_payout_consistency" /\ u_result.done
    /\ Len(u_call.payouts) = 3
    /\ ErrorCount(u_result.value, "Duplicate payout") = 2
    /\ ErrorCount(u_result.value, "Warning: Missing basic bet types") = 1
C15_WitnessEmpty ==
    /\ u_call.fn = "validate_payout_consistency"
    /\ Len(u_call.payouts) = 2
    /\ u_result = Returned(<<>>)


(***************************************************************************)
(* Claims about the parsers (SpecPrize).                                   *)
(***************************************************************************)
\* C16: parse_prize returns oku_amount * 10000 + man_amount for a text with
\* both units, also when the man amount is written with a thousands
\* separator; the man amount for a text with only the man unit; 0 for a text
\* without unit.
C16_ParsePrize ==
    (u_call.fn = "parse_prize" /\ u_result.done) =>
        u_result.value =
            [value |-> IF u_call.unit
                       THEN u_call.oku_amount * 10000 + u_call.man_amount
                       ELSE 0]
\* the same, leaving out the texts with both units and a separator
C16_ParsePrizeWithoutSeparator ==
    (/\ u_call.fn = "parse_prize" /\ u_result.done
     /\ ~(u_call.oku_amount > 0 /\ Contains(u_call.text, <<",">>)))
    => u_result.value =
          [value |-> IF u_call.unit
                     THEN u_call.oku_amount * 10000 + u_call.man_amount
                     ELSE 0]
\* "17 oku 5,655 man en" gives 170655
C16_SeparatorLosesThousands ==
    ParsePrize(<<"1", "7", "oku", "5", ",", "6", "5", "5", "man", "en">>)
        = [value |-> 170655]


(***************************************************************************)
(* Claims about the derived rates (SpecRates).                             *)
(***************************************************************************)
\* win_rate is round(wins / races * 100, 2): no hundredth is nearer
NearestHundredth(rate, count, races) ==
    /\ 2 * (rate * races - count * 10000) <= races
    /\ 2 * (count * 10000 - rate * races) <= races
RatesDerived(obj) ==
    IF obj.races > 0
    THEN /\ NearestHundredth(obj.win_rate, obj.wins, obj.races)
         /\ obj.show_rate >= obj.second_rate
         /\ obj.second_rate >= obj.win_rate
    ELSE obj.win_rate = 0 /\ obj.second_rate = 0 /\ obj.show_rate = 0
\* C17: after update_stats on a Trainer, Owner or Breeder, and after
\* calculate_rates on a ...Performance whatever the rate fields held before:
\* with races > 0, win_rate = round(wins / races * 100, 2) and show_rate >=
\* second_rate >= win_rate; with races = 0 the three rates are 0.
C17_RatesDerived ==
    (u_call.fn \in {"update_stats", "calculate_rates"} /\ u_result.done)
    => RatesDerived(u_result.value)
\* the same for update_stats alone
C17_UpdateStatsRates ==
    (u_call.fn = "update_stats" /\ u_result.done) => RatesDerived(u_result.value)
\* the same for calculate_rates with races > 0
C17_CalculateRatesWithRaces ==
    (u_call.fn = "calculate_rates" /\ u_result.done /\ u_call.obj.races > 0)
    => RatesDerived(u_result.value)


(***************************************************************************)
(* Claims about the race detail extractor (SpecResultRow, SpecPage).       *)
(***************************************************************************)
\* C18: _extract_race_result_row returns no RaceResult for a row with fewer
\* than 15 cells; for a row with 15 or more cells it returns a RaceResult,
\* and a missing later column (trainer at index 18, owner at 19, prize at
\* 20) leaves its fields empty.
C18_MinimumColumns ==
    (u_call.fn = "_extract_race_result_row" /\ u_result.done) =>
      LET cell_count == Len(u_call.cells)
          result == u_result.value
      IN  /\ cell_count < 15 => result = NoResult
          /\ cell_count >= 15 =>
               /\ result.result
               /\ result.race_id = u_call.race_id
               /\ cell_count <= 18 =>
                    /\ result.trainer_name = <<>>
                    /\ result.trainer_id = None
                    /\ result.trainer_region = None
               /\ cell_count <= 19 =>
                    result.owner_name = <<>> /\ result.owner_id = None
               /\ cell_count <= 20 => result.prize_money = NoDecimal
C18_Witness ==
    /\ u_call.fn = "_extract_race_result_row" /\ u_result.done
    /\ Len(u_call.cells) = 19
    /\ u_result.value.result
    /\ u_result.value.trainer_id = "T1"
    /\ u_result.value.owner_name = <<>>
    /\ u_result.value.prize_money = NoDecimal
    /\ u_result.value.horse_weight = Int1(484)
C18_WitnessShort ==
    /\ u_call.fn = "_extract_race_result_row"
    /\ Len(u_call.cells) = 14
    /\ u_result = Returned(NoResult)


\* the rows of the table that have the 15 cells of a result
ResultRows(page) ==
    {i \in 2..Len(page.rows) : Len(page.rows[i]) >= 15}
\* C19: extract_race_detail returns None, never a Race with default values,
\* when the race-data section or its heading is missing, or when the result
\* table is missing or gives no result row; a missing payout block alone
\* does not fail the page: the payouts are then the empty list.
C19_StructuralAbsence ==
    (u_call.fn = "extract_race_detail" /\ u_result.done) =>
      LET page == u_call.page
          complete == /\ page.race_data /\ page.heading
                      /\ page.result_table /\ ResultRows(page) # {}
      IN  /\ ~complete => u_result.value = NoDetail
          /\ (complete /\ ~page.pay_block) =>
               /\ u_result.value # NoDetail
               /\ u_result.value[1].race
               /\ Len(u_result.value[2]) = Cardinality(ResultRows(page))
               /\ u_result.value[3] = <<>>
          /\ complete => u_result.value # NoDetail
C19_Witness ==
    /\ u_call.fn = "extract_race_detail" /\ u_result.done
    /\ ~u_call.page.pay_block
    /\ u_call.page.distance = NoInt
    /\ Len(u_result.value) = 3
    /\ Len(u_result.value[2]) = 2
    /\ u_result.value[3] = <<>>
C19_WitnessNoRows ==
    /\ u_call.fn = "extract_race_detail"
    /\ u_call.page.race_data /\ u_call.page.heading
    /\ u_call.page.result_table /\ Len(u_call.page.rows) = 2
    /\ u_call.page.pay_block /\ u_call.page.pay_rows # <<>>
    /\ u_result = Returned(NoDetail)


(***************************************************************************)
(* Claims about skip-if-present (SpecSkip).                                *)
(***************************************************************************)
PersistedEntries(race_list, persisted) ==
    Cardinality({i \in 1..Len(race_list) : race_list[i] \in persisted})
PassedIds(passed) == {passed[i] : i \in 1..Len(passed)}
\* C20: with skip_existing, scrape_and_store_races counts a race that is
\* already persisted as skipped, issues no detail fetch for it and writes
\* nothing for it; with skip_existing, run_batch_collection never passes a
\* horse whose id is already persisted to the detail scraper.
C20_SkipIfPresent ==
    /\ (u_call.fn = "scrape_and_store_races" /\ u_result.done /\ u_call.skip_existing)
       => /\ u_result.value.stats.skipped
               = PersistedEntries(u_call.race_list, u_call.persisted)
          /\ u_result.value.fetched \cap u_call.persisted = {}
          /\ u_result.value.written \cap u_call.persisted = {}
    /\ (u_call.fn = "run_batch_collection" /\ u_result.done /\ u_call.skip_existing)
       => PassedIds(u_result.value.passed) \cap u_call.persisted = {}
\* what scrape_and_store_races does: nothing is ever counted as skipped and a
\* detail fetch is issued for every entry with a race_id, persisted or not;
\* nothing is written
C20_RaceNeverSkipped ==
    (u_call.fn = "scrape_and_store_races" /\ u_result.done)
    => /\ u_result.value.stats.skipped = 0
       /\ u_result.value.fetched
            = {u_call.race_list[i] : i \in 1..Len(u_call.race_list)} \ {None}
       /\ u_result.value.written = {}
\* run_batch_collection filters the persisted horses when the select answers
C20_HorsesFilteredWhenSelectAnswers ==
    (/\ u_call.fn = "run_batch_collection" /\ u_result.done
     /\ u_call.skip_existing /\ u_call.supabase = "client")
    => PassedIds(u_result.value.passed) \cap u_call.persisted = {}


LocatorsOf(function) ==
  IF function = "find_profile_table" THEN table_patterns ELSE table_candidates

\* The locators (by rank) that match some table of the document.
MatchingRanks(soup, locators) ==
  {k \in 1..Len(locators) : \E i \in 1..Len(soup) : TableMatches(soup[i], locators[k])}

\* C21: find_profile_table and find_pedigree_table return None exactly when
\* no locator matches a table of the document; otherwise the returned table
\* matches the earliest locator of the list that matches anything, it is the
\* first such table of the document, and a document holding one table that a
\* locator matches resolves to that table.
C21_OrderedFallback ==
  (u_call.fn \in {"find_profile_table", "find_pedigree_table"} /\ u_result.done) =>
    LET soup == u_call.soup
        locators == LocatorsOf(u_call.fn)
        ranks == MatchingRanks(soup, locators)
        found == u_result.value
    IN /\ (found = NoTable) <=> (ranks = {})
       /\ found # NoTable =>
            /\ found \in 1..Len(soup)
            /\ \E k \in ranks :
                 /\ \A j \in ranks : k <= j
                 /\ TableMatches(soup[found], locators[k])
                 /\ \A i \in 1..(found - 1) : ~TableMatches(soup[i], locators[k])
       /\ (Len(soup) = 1 /\ ranks # {}) => found = 1

\* A table of a later locator stands before a table of an earlier locator
\* and the later table of the document is returned.
C21_Witness ==
  /\ u_call.fn = "find_profile_table"
  /\ u_result.done
  /\ Len(u_call.soup) = 2
  /\ u_call.soup[1] = HtmlTable("", {"horse_prof"})
  /\ u_call.soup[2] = HtmlTable("", {"db_prof_table"})
  /\ u_result.value = 2

\* A document with only the oldest pedigree template is resolved.
C21_WitnessLegacy ==
  /\ u_call.fn = "find_pedigree_table"
  /\ u_result.done
  /\ u_call.soup = <<HtmlTable("", {"blood_table"})>>
  /\ u_result.value = 1


\* C22: in scrape_and_store_races an entry is counted as failed only if its
\* race_id is missing, its detail scrape returned nothing, the insert
\* reported failure or the fetch or the store raised; an entry whose detail
\* scrape returned data and whose insert reported success is counted as
\* success.
C22_FailedOnlyForListedReasons ==
    (u_call.fn = "scrape_and_store_races" /\ u_result.done) =>
        \A i \in 1..Len(u_call.race_list) :
            LET entry == u_result.value.trace[i]
                answer == u_call.answers[i]
            IN  /\ entry.counted = "failed" =>
                      \/ u_call.race_list[i] = None
                      \/ entry.detail_called /\ ~answer.detail_ok
                      \/ entry.insert_called /\ ~entry.insert_returned
                      \/ entry.raised_in \in {"fetch", "store"}
                /\ (entry.detail_called /\ answer.detail_ok
                      /\ entry.insert_called /\ entry.insert_returned) =>
                      entry.counted = "success"

\* C22, what the code does: an entry with a race_id is counted as failed
\* exactly when its detail scrape was called, whether it returned nothing
\* or data (the unpacking of the returned tuple raises); the insert is never
\* called, no entry is counted as success and the counters add up to total.
C22_DetailDataCountsAsFailed ==
    (u_call.fn = "scrape_and_store_races" /\ u_result.done) =>
        /\ \A i \in 1..Len(u_call.race_list) :
               LET entry == u_result.value.trace[i]
               IN  /\ entry.counted = "failed"
                   /\ ~entry.insert_called
                   /\ (u_call.answers[i].detail_ok /\ entry.detail_called)
                         => entry.raised_in = "unpack"
        /\ u_result.value.stats.success = 0
        /\ u_result.value.stats.failed = u_result.value.stats.total

\* An entry whose detail scrape returns data has been processed.
C22_WitnessDetailData ==
    /\ u_call.fn = "scrape_and_store_races"
    /\ u_result.done
    /\ u_call.race_list = <<"R1">>
    /\ u_call.answers[1].detail_ok
    /\ u_call.answers[1].accepted
    /\ u_result.value.stats.failed = 1


\* the data rows of the table of the call (every one has 15 cells and gives
\* a result)
StarterOf(i) == u_call.page.rows[i + 1]

\* the id in the horse link of a row, None without link or without /horse/<id>
LinkedHorseId(row) ==
    IF row[4].link.linked /\ Len(row[4].link.href) = 2 /\ row[4].link.href[1] = "horse"
    THEN row[4].link.href[2] ELSE None

\* C23: every RaceResult of the result-row extractor has a non-empty
\* horse_id, the id of the horse link when it resolves and else the
\* placeholder UNKNOWN_{race_id}_{horse_number}; two different rows of one
\* race never get the same (race_id, horse_id).
C23_HorseIdentity ==
    (u_call.fn = "_extract_race_results" /\ u_result.done) =>
        LET results == u_result.value IN
        /\ Len(results) = Len(u_call.page.rows) - 1
        /\ \A i \in 1..Len(results) :
              /\ results[i].horse_id # <<>>
              /\ LinkedHorseId(StarterOf(i)) # None
                    => results[i].horse_id = <<LinkedHorseId(StarterOf(i))>>
              /\ LinkedHorseId(StarterOf(i)) = None
                    => /\ Len(results[i].horse_id) = 3
                       /\ results[i].horse_id[1] = "UNKNOWN"
                       /\ results[i].horse_id[2] = u_call.race_id
        /\ \A i, j \in 1..Len(results) :
              (i # j /\ StarterOf(i) # StarterOf(j)) =>
                  <<results[i].race_id, results[i].horse_id>>
                     # <<results[j].race_id, results[j].horse_id>>

\* C23, what the code gives: the horse_id is never empty and comes from the
\* link or is the placeholder made of the race_id and the parsed horse
\* number (None when the cell holds no number); two rows get different ids
\* when their links resolve to different horses, when one resolves and the
\* other does not, or when neither resolves and their horse-number cells
\* parse to different values.
C23_HorseIdSources ==
    (u_call.fn = "_extract_race_results" /\ u_result.done) =>
        LET results == u_result.value
            linked(i) == LinkedHorseId(StarterOf(i))
            number(i) == ParseOptionalInt(StarterOf(i)[3].text)
        IN
        /\ \A i \in 1..Len(results) :
              /\ results[i].horse_id # <<>>
              /\ results[i].horse_id =
                    IF linked(i) # None THEN <<linked(i)>>
                    ELSE <<"UNKNOWN", u_call.race_id, number(i)>>
        /\ \A i, j \in 1..Len(results) :
              (\/ linked(i) # linked(j)
               \/ linked(i) = None /\ linked(j) = None /\ number(i) # number(j))
                  => results[i].horse_id # results[j].horse_id

\* Two rows without horse link whose horse-number cells hold no number have
\* been extracted.
C23_WitnessPlaceholders ==
    /\ u_call.fn = "_extract_race_results"
    /\ u_result.done
    /\ Len(u_result.value) = 2
    /\ StarterOf(1) # StarterOf(2)
    /\ u_result.value[1].horse_id = <<"UNKNOWN", u_call.race_id, NoInt>>
    /\ u_result.value[2].horse_id = <<"UNKNOWN", u_call.race_id, NoInt>>


\* the amount of a line as a number: the line without commas is made of
\* digits only; 0 when it is not
AmountValue(amount) ==
    LET digits == SelectSeq(amount, LAMBDA c : c # ",")
    IN  IF digits # <<>> /\ \A k \in 1..Len(digits) : digits[k] \in Digits
        THEN ParseInt(digits, 0) ELSE 0

\* the indices of a row that have a positive numeric amount
PayingLines(row) ==
    {i \in 1..Len(row.combinations) :
        i <= Len(row.payout_amounts) /\ AmountValue(row.payout_amounts[i]) > 0}

\* the k-th smallest element of a set of indices
NthOf(S, k) == CHOOSE i \in S : Cardinality({j \in S : j <= i}) = k

\* C24: _extract_payout_row gives, in the order of the lines, one RacePayout
\* for every index with a positive numeric amount; it pairs the combination,
\* the amount and the popularity of that same index (no popularity when
\* the popularity list has no entry there or no number), so an index without
\* usable amount shifts nothing, and there are at most min(len(combinations),
\* len(amounts)) payouts, each with a positive amount and a non-empty
\* combination.
C24_PairedByIndex ==
    (u_call.fn = "_extract_payout_row" /\ u_result.done /\ u_call.row.cell_count >= 4) =>
        LET row == u_call.row
            paying == PayingLines(row)
            payouts == u_result.value
        IN  /\ Len(payouts) = Cardinality(paying)
            /\ Len(payouts) <= Min(Len(row.combinations), Len(row.payout_amounts))
            /\ \A k \in 1..Len(payouts) :
                  LET i == NthOf(paying, k) IN
                  /\ payouts[k].combination = <<"1", Arrow, DigitChar(i)>>
                  /\ payouts[k].payout_amount = Int1(AmountValue(row.payout_amounts[i]))
                  /\ payouts[k].popularity =
                        (IF i <= Len(row.popularities) /\ row.popularities[i] = <<"1">>
                         THEN Int1(1) ELSE NoInt)
                  /\ payouts[k].payout_amount[1] > 0
                  /\ payouts[k].combination # <<>>
                  /\ payouts[k].bet_type = "fukusho"
                  /\ payouts[k].race_id = u_call.race_id

\* The second of three lines has no numeric amount: the first and the third
\* combination are paid with the first and the third amount, the third
\* without popularity.
C24_Witness ==
    /\ u_call.fn = "_extract_payout_row"
    /\ u_result.done
    /\ u_call.row.cell_count = 4
    /\ Len(u_call.row.combinations) = 3
    /\ u_call.row.payout_amounts = <<<<"1", "0", "0">>, <<"x">>, <<"2", ",", "5", "0", "0">>>>
    /\ u_call.row.popularities = <<<<"1">>, <<"1">>>>
    /\ Len(u_result.value) = 2
    /\ u_result.value[2].combination = <<"1", Arrow, "3">>
    /\ u_result.value[2].payout_amount = Int1(2500)
    /\ u_result.value[2].popularity = NoInt

\* More combinations than amounts: the lines past the last amount give
\* nothing.
C24_WitnessShortAmounts ==
    /\ u_call.fn = "_extract_payout_row"
    /\ u_result.done
    /\ u_call.row.cell_count = 4
    /\ Len(u_call.row.combinations) = 3
    /\ u_call.row.payout_amounts = <<<<"1", "0", "0">>>>
    /\ Len(u_result.value) = 1


\* the mating rows of a table, in table order
MatingEdges(tbl) == SelectSeq(tbl, LAMBDA row : row.relation_type = "mating")

\* the scrape of this step went past the detail page
Scraped == scrapes' = scrapes + 1 /\ "direct" \in DOMAIN last_scrape'

\* C25: a scrape leaves a mating edge of (sire, dam) listing the horse when
\* both parents are resolved and the store is there; with one parent or
\* none resolved it adds no mating edge and changes no children_ids; the
\* direct edges it resolved are in the table after the call either way.
C25_MatingOnlyWithBothParents ==
    [][Scraped =>
         LET call == last_scrape'
             both == call.sire # None /\ call.dam # None
         IN  /\ (both /\ call.supabase = "client") =>
                    \E i \in 1..Len(horse_relations') :
                        /\ horse_relations'[i].relation_type = "mating"
                        /\ {horse_relations'[i].horse_a_id,
                            horse_relations'[i].horse_b_id} = {call.sire, call.dam}
                        /\ call.horse \in SeqToSet(horse_relations'[i].children_ids)
             /\ ~both => MatingEdges(horse_relations') = MatingEdges(horse_relations)
             /\ call.supabase = "client" =>
                    \A k \in 1..Len(call.direct) :
                        SelectRelation(horse_relations', call.direct[k].horse_a_id,
                                       call.direct[k].horse_b_id,
                                       call.direct[k].relation_type) # {}
             /\ call.supabase # "client" => horse_relations' = horse_relations]_vars

\* A horse with only its dam (and the dam's sire) resolved was scraped after
\* a mating edge had been stored: its dam_of and bms_of edges are there and
\* the mating rows are those of before.
C25_Witness ==
    /\ last_scrape.horse = "Y"
    /\ "direct" \in DOMAIN last_scrape
    /\ last_scrape.supabase = "client"
    /\ last_scrape.sire = None
    /\ last_scrape.dam = "B"
    /\ MatingEdges(horse_relations) = <<Row("A", "B", "mating", <<"X">>)>>
    /\ SelectRelation(horse_relations, "B", "Y", "dam_of") # {}
    /\ SelectRelation(horse_relations, "A", "Y", "bms_of") # {}

\* A horse with both parents resolved was scraped.
C25_WitnessBoth ==
    /\ "direct" \in DOMAIN last_scrape
    /\ last_scrape.supabase = "client"
    /\ last_scrape.sire = "A"
    /\ last_scrape.dam = "B"
    /\ last_scrape.branch = "added"


\* C28: when scrape returns False because saving the horse failed, the
\* horse_relations table is the same as before the call, so that a horse id
\* is in the children_ids of a mating edge only if the row of that horse
\* has been persisted.
C28_FailedSaveLeavesRelations ==
    [][(Scraped /\ ~last_scrape'.success /\ ~last_scrape'.horse_saved) =>
         /\ horse_relations' = horse_relations
         /\ \A i \in 1..Len(horse_relations') :
               horse_relations'[i].relation_type = "mating" =>
                   SeqToSet(horse_relations'[i].children_ids) \subseteq horses']_vars

\* C28, what the code does: with a client, a scrape whose horses upsert
\* failed returns False and still leaves its direct edges and, with both
\* parents resolved, the mating edge listing the horse; only without a
\* client is the table left as it was.
C28_RelationsSavedAnyway ==
    [][(Scraped /\ ~last_scrape'.horse_saved) =>
         LET call == last_scrape' IN
         /\ ~call.success
         /\ horses' = horses
         /\ call.supabase # "client" => horse_relations' = horse_relations
         /\ call.supabase = "client" =>
               /\ \A k \in 1..Len(call.direct) :
                     SelectRelation(horse_relations', call.direct[k].horse_a_id,
                                    call.direct[k].horse_b_id,
                                    call.direct[k].relation_type) # {}
               /\ (call.sire # None /\ call.dam # None) =>
                     \E i \in 1..Len(horse_relations') :
                         /\ horse_relations'[i].relation_type = "mating"
                         /\ call.horse \in SeqToSet(horse_relations'[i].children_ids)]_vars

\* The scrape of a horse with both parents failed at the horses upsert and
\* the horse is listed in a mating edge without a horses row.
C28_WitnessUnsavedChild ==
    /\ "direct" \in DOMAIN last_scrape
    /\ last_scrape.horse = "X"
    /\ ~last_scrape.success
    /\ "X" \notin horses
    /\ horse_relations # <<>>
    /\ \E i \in 1..Len(horse_relations) :
          /\ horse_relations[i].relation_type = "mating"
          /\ "X" \in SeqToSet(horse_relations[i].children_ids)


\* the rows of the listing in page order (every page but the last is full)
ListingRows(site) == ConcatAll(site.pages)

\* the rows from start_offset on that are not older than min_birth_year
RowsFrom(site, start_offset) ==
    LET rows == ListingRows(site)
        old == {i \in (start_offset + 1)..Len(rows) :
                  rows[i].birth_year < min_birth_year}
    IN  IF old = {} THEN SubSeq(rows, start_offset + 1, Len(rows))
        ELSE SubSeq(rows, start_offset + 1, FirstOf(old) - 1)

CollectedIds == {ch.all_horses[k].id : k \in 1..Len(ch.all_horses)}

\* C26: the list _collect_horse_list gathers never holds the same horse id
\* twice and never more than total_target entries, and against a stable
\* listing the batches take the consecutive rows of the listing from
\* start_offset on, none skipped and none twice.
C26_NoDuplicates ==
    /\ Cardinality(CollectedIds) = Len(ch.all_horses)
    /\ Len(ch.all_horses) <= ch.total_target
    /\ ch.site.beyond = "empty" =>
          /\ Len(ch.all_horses) <= Len(RowsFrom(ch.site, ch.start_offset))
          /\ ch.all_horses = SubSeq(RowsFrom(ch.site, ch.start_offset), 1,
                                    Len(ch.all_horses))

\* C26, what the code gives: never more than total_target entries; against
\* a listing that ends with an empty page the consecutive rows from
\* start_offset on, each once, and on return all of them up to total_target.
C26_ConsecutiveOnStableListing ==
    /\ Len(ch.all_horses) <= ch.total_target
    /\ ch.site.beyond = "empty" =>
          /\ Cardinality(CollectedIds) = Len(ch.all_horses)
          /\ Len(ch.all_horses) <= Len(RowsFrom(ch.site, ch.start_offset))
          /\ ch.all_horses = SubSeq(RowsFrom(ch.site, ch.start_offset), 1,
                                    Len(ch.all_horses))
          /\ ch.current_offset = ch.start_offset + Len(ch.all_horses)
          /\ ch.pc = "done" =>
                Len(ch.all_horses) = Min(ch.total_target,
                                         Len(RowsFrom(ch.site, ch.start_offset)))

\* One batch read the same row from two pages and both copies were kept.
C26_WitnessDuplicate ==
    /\ ch.batches = 1
    /\ ch.last_batch = 2
    /\ Len(ch.all_horses) = 2
    /\ ch.all_horses[1].id = ch.all_horses[2].id


\* the data rows of the page of the call
DataRows == IF u_call.page.rows = <<>> THEN <<>> ELSE Tail(u_call.page.rows)

\* C27: in every successful extract_race_detail, total_horses is the number
\* of rows of the result table after the header and winning_time the text
\* of the time cell of the first of them (None when that row has no time
\* cell); total_horses is at least the number of RaceResult records and
\* equals it exactly when no row was dropped for having fewer than 15
\* cells.
C27_TotalHorsesFromRows ==
    (u_call.fn = "extract_race_detail" /\ u_result.done /\ u_result.value # NoDetail) =>
        LET race == u_result.value[1]
            results == u_result.value[2]
            dropped == {i \in 1..Len(DataRows) : Len(DataRows[i]) < 15}
        IN  /\ race.total_horses = Len(DataRows)
            /\ race.winning_time =
                  (IF Len(DataRows[1]) >= 8
                   THEN Text1(Strip(DataRows[1][8].text)) ELSE NoText)
            /\ race.total_horses >= Len(results)
            /\ (race.total_horses = Len(results)) <=> (dropped = {})
            /\ Len(results) = Len(DataRows) - Cardinality(dropped)

\* The first data row is too short for a result but has a time cell, the
\* second gives the only result with another time: total_horses is 2 and
\* winning_time the time of the first row.
C27_Witness ==
    /\ u_call.fn = "extract_race_detail"
    /\ u_result.done
    /\ u_result.value # NoDetail
    /\ Len(DataRows) = 2
    /\ Len(DataRows[1]) = 8
    /\ Len(u_result.value[2]) = 1
    /\ u_result.value[2][1].race_time = <<"1", ":", "3", "4", ".", "0">>
    /\ u_result.value[1].total_horses = 2
    /\ u_result.value[1].winning_time = Text1(<<"1", ":", "3", "3", ".", "5">>)

\* No row was dropped: total_horses is the number of results.
C27_WitnessAllKept ==
    /\ u_call.fn = "extract_race_detail"
    /\ u_result.done
    /\ u_result.value # NoDetail
    /\ Len(u_result.value[2]) = 3
    /\ u_result.value[1].total_horses = 3


\* the key of the duplicate check
RelationKey(row) == <<row.horse_a_id, row.horse_b_id, row.relation_type>>

\* what insert-if-absent allows a call with relations to make of a table:
\* the rows it held stay as they are, every new row is the first relation
\* of the list with a key the table did not hold, no key is added twice,
\* and after a call that went through every relation has its key stored
InsertedIfAbsent(old, new, relations, complete) ==
    LET added == (Len(old) + 1)..Len(new)
        stored == {RelationKey(old[i]) : i \in 1..Len(old)}
    IN  /\ Len(new) >= Len(old)
        /\ \A i \in 1..Len(old) : new[i] = old[i]
        /\ \A i \in added :
              /\ RelationKey(new[i]) \notin stored
              /\ \E k \in 1..Len(relations) :
                    /\ RelationKey(relations[k]) = RelationKey(new[i])
                    /\ \A j \in 1..(k - 1) :
                          RelationKey(relations[j]) # RelationKey(relations[k])
                    /\ new[i].children_ids = relations[k].children_ids
        /\ \A i, j \in added : i # j => RelationKey(new[i]) # RelationKey(new[j])
        /\ complete =>
              \A k \in 1..Len(relations) :
                  \E i \in 1..Len(new) : RelationKey(new[i]) = RelationKey(relations[k])

\* C29: save_relations and insert_horse_relations are insert-if-absent: a
\* relation whose (horse_a_id, horse_b_id, relation_type) is stored changes
\* nothing (the stored children_ids stay), a relation not yet stored gives
\* exactly one new row, and the rows of other relations are left as they
\* are.
C29_InsertIfAbsent ==
    [][/\ (pg_clock' = pg_clock + 1 /\ pg_last'.op = "save_relations") =>
             InsertedIfAbsent(horse_relations, horse_relations',
                              pg_last'.relations, pg_last'.ok)
       /\ (pg_clock' = pg_clock + 1 /\ pg_last'.op = "insert_horse_relations") =>
             InsertedIfAbsent(pg_db.horse_relations, pg_db'.horse_relations,
                              pg_last'.relations, pg_last'.ok)]_vars

\* save_relations was given the mating relation of A and B with child Y
\* while the edge with child X was stored: the stored children_ids stayed.
C29_Witness ==
    /\ pg_last.op = "save_relations"
    /\ pg_last.ok
    /\ pg_last.relations = <<Row("A", "B", "mating", <<"Y">>)>>
    /\ \E i \in 1..Len(horse_relations) :
          horse_relations[i] = Row("A", "B", "mating", <<"X">>)
    /\ \A i \in 1..Len(horse_relations) :
          horse_relations[i].children_ids # <<"Y">>

\* The same for insert_horse_relations.
C29_WitnessPostgres ==
    /\ pg_last.op = "insert_horse_relations"
    /\ pg_last.ok
    /\ pg_last.relations = <<Row("A", "B", "mating", <<"Y">>)>>
    /\ \E i \in 1..Len(pg_db.horse_relations) :
          /\ RelationKey(pg_db.horse_relations[i]) = <<"A", "B", "mating">>
          /\ pg_db.horse_relations[i].children_ids = <<"X">>


\* the distance column of the races row of a race_id
StoredDistance(db, race_id) ==
    (CHOOSE r \in db.races : r.race_id = race_id).distance

\* the call stores a race whose race_id has no row yet
StoresNewRace(op) ==
    /\ Called(op)
    /\ pg_last'.ok
    /\ ~ \E r \in pg_db.races : r.race_id = pg_last'.race.race_id
    /\ \E r \in pg_db'.races : r.race_id = pg_last'.race.race_id

\* C30: insert_complete_race_data persists the race with the distance that
\* was extracted: for a new race_id, the distance of the stored row equals
\* race.distance of the Race passed in, as it does for insert_race.
C30_CompleteStoresDistance ==
    [][(StoresNewRace("insert_complete_race_data") \/ StoresNewRace("insert_race"))
       => StoredDistance(pg_db', pg_last'.race.race_id)
              = pg_last'.race.distance.value]_vars

\* C30, what the code gives: insert_race stores race.distance for a new
\* race_id; insert_complete_race_data stores it only when race.distance is
\* a string of digits and stores 0 when it is an int, as the extractor
\* yields it.
C30_CompleteStoresZeroForInt ==
    [][/\ StoresNewRace("insert_race")
          => StoredDistance(pg_db', pg_last'.race.race_id)
                 = pg_last'.race.distance.value
       /\ StoresNewRace("insert_complete_race_data")
          => StoredDistance(pg_db', pg_last'.race.race_id)
                 = IF pg_last'.race.distance.type = "int" THEN 0
                   ELSE pg_last'.race.distance.value]_vars

\* insert_complete_race_data has just stored a new race whose distance is
\* the int 2400; the row says 0.
C30_WitnessZeroDistance ==
    /\ pg_last.op = "insert_complete_race_data" /\ pg_last.ok
    /\ pg_last.race.distance = IntDistance(2400)
    /\ \E r \in pg_db.races :
          /\ r.race_id = pg_last.race.race_id
          /\ r.created_at = pg_clock - 1
          /\ r.distance = 0

====
